---- MODULE Spec2Model ----
(***************************************************************************)
(* Agent dispatch and scheduling subsystem of the HF DABBY API backend:     *)
(* LoadBalancer (src/load_balancer.py) and TaskScheduler (src/scheduler.py).*)
(***************************************************************************)
EXTENDS Integers, Sequences, FiniteSets, TLC

(***************************************************************************)
(* Bounds of the model                                                      *)
(***************************************************************************)
\* calls explored from the state __init__ leaves
MaxCalls == 3
\* largest n passed to scale_up / scale_down
MaxScale == 4
\* calls explored by SpecScale
MaxScaleCalls == 4
\* largest pool SpecSelect starts from
MaxSel == 3
\* largest cursor SpecSelect starts from
MaxCursor == 3
\* consecutive calls of get_agent explored by SpecSelect
MaxTrace == 8
\* largest pool SpecAuto starts from
MaxPool == 6
\* steps of the health checker explored by SpecAuto
MaxAutoCalls == 2

(***************************************************************************)
(* Program constants                                                        *)
(***************************************************************************)
max_connections_per_agent == 10
MaxInstancesPerType == 5

AgentTypes == {"Dabby Consultant", "Auditor Agent", "Tax Agent"}
\* the order in which _initialize_agent_pools fills the dict, which is the
\* order agent_pools.items() iterates in
TypeOrder == <<"Dabby Consultant", "Auditor Agent", "Tax Agent">>

ROUND_ROBIN == "round_robin"
LEAST_CONNECTIONS == "least_connections"
WEIGHTED_ROUND_ROBIN == "weighted_round_robin"
RESPONSE_TIME == "response_time"
LoadBalancingAlgorithm ==
    {ROUND_ROBIN, LEAST_CONNECTIONS, WEIGHTED_ROUND_ROBIN, RESPONSE_TIME}

\* the values calls are made with
Weights == {0, 1}
ResponseTimes == {0, 1}
Probes == {"ok", "slow", "raise"}

VARIABLES
    algorithm,             \* LoadBalancer.algorithm
    agent_pools,           \* LoadBalancer.agent_pools: type -> list of AgentInstance
    round_robin_counters,  \* LoadBalancer.round_robin_counters
    agent_weights,         \* LoadBalancer.agent_weights
    created,               \* per type, AgentInstance objects constructed so far
    now,                   \* time.time() as read by the last get_agent
    hc_pc,                 \* position of the _health_checker thread in its loop
    ret,                   \* what the last call returned
    calls,                 \* calls made since __init__
    picked,                \* SpecSelect: the instances get_agent returned, in order
    tasks,                 \* TaskScheduler.tasks, in order of creation
    jobs,                  \* per task, where its one-shot job stands in APScheduler
    schedule_pc,           \* per task, where its schedule_task call stands
    scheduler_running,     \* TaskScheduler.scheduler.running
    sret,                  \* what the last TaskScheduler call returned
    cron_due,              \* per periodic job, fire times passed and not yet processed
    cron_instances,        \* per periodic job, executions in progress
    cron_submitted,        \* per periodic job, run times handed over at the last processing
    lock,                  \* LoadBalancer.lock: the thread holding it, or 0
    pc,                    \* per thread, its position in the call it is making
    frame                  \* per thread, the local variables of that call

lbVars == <<algorithm, agent_pools, round_robin_counters, agent_weights,
            created, now, hc_pc, ret>>
cronVars == <<cron_due, cron_instances, cron_submitted>>
schedVars == <<tasks, jobs, schedule_pc, scheduler_running, sret, cronVars>>
threadVars == <<lock, pc, frame>>
vars == <<algorithm, agent_pools, round_robin_counters, agent_weights,
          created, now, hc_pc, ret, calls, picked,
          tasks, jobs, schedule_pc, scheduler_running, sret,
          cron_due, cron_instances, cron_submitted,
          lock, pc, frame>>

\* the threads that call into the LoadBalancer at the same time
Threads == {1, 2}

\* no thread is inside a call, the lock is free
NoFrame == [t |-> "", uid |-> 0, agent_id |-> 0, made_weight |-> 0,
            weight |-> 0, instances |-> <<>>, total_weight |-> 0]
ThreadsIdle ==
    /\ lock = 0
    /\ pc = [th \in Threads |-> "idle"]
    /\ frame = [th \in Threads |-> NoFrame]

\* the periodic jobs that start() registers
CronJobs == {"daily_audit_summary", "weekly_tax_check",
             "monthly_consultant_report"}

\* TaskScheduler.__init__: no task, an empty job store, scheduler not started
NoSret == [op |-> "__init__", ok |-> TRUE]
TaskSchedulerInit ==
    /\ cron_due = [id \in CronJobs |-> 0]
    /\ cron_instances = [id \in CronJobs |-> 0]
    /\ cron_submitted = [id \in CronJobs |-> 0]
    /\ tasks = <<>>
    /\ jobs = <<>>
    /\ schedule_pc = <<>>
    /\ scheduler_running = FALSE
    /\ sret = NoSret

(***************************************************************************)
(* AgentInstance                                                            *)
(***************************************************************************)
\* uid is the identity of the AgentInstance object (and of the handle it
\* carries); agent_id is the string f"{agent_type}_{len(pool)}", kept as the
\* number after the underscore.
AgentInstance(uid, agent_id, weight) ==
    [uid |-> uid, agent_id |-> agent_id, weight |-> weight,
     active_connections |-> 0, total_requests |-> 0,
     total_response_time |-> 0, last_used |-> 0,
     health_status |-> "healthy"]

RECURSIVE SumWeight(_)
SumWeight(instances) ==
    IF instances = <<>> THEN 0
    ELSE Head(instances).weight + SumWeight(Tail(instances))

RECURSIVE SumConnections(_)
SumConnections(instances) ==
    IF instances = <<>> THEN 0
    ELSE Head(instances).active_connections + SumConnections(Tail(instances))

\* positions, in pool order, of the instances with health_status == "healthy"
HealthyIdx(pool) ==
    SelectSeq([i \in 1..Len(pool) |-> i],
              LAMBDA i : pool[i].health_status = "healthy")

\* _create_agent_instance: the instance it appends to pool
NewInstance(t, pool, weights, uid) ==
    AgentInstance(uid, Len(pool), weights[t])

CreateAgentInstance(t, pool, weights, uid) ==
    Append(pool, NewInstance(t, pool, weights, uid))

(***************************************************************************)
(* Selection algorithms: each returns the position chosen in `instances`,   *)
(* the new value of the type's counter, and whether it raised.              *)
(***************************************************************************)
Chosen(pos, counter) == [raised |-> FALSE, pos |-> pos, counter |-> counter]
Raised(counter) == [raised |-> TRUE, pos |-> 0, counter |-> counter]

\* a cursor that is never advanced
RoundRobinSelect_Stuck(instances, counter) ==
    Chosen((counter % Len(instances)) + 1, counter)

RoundRobinSelect(instances, counter) ==
    Chosen((counter % Len(instances)) + 1, (counter + 1) % Len(instances))

\* the last of the minimal elements instead of the first
LeastConnectionsSelect_Last(instances, counter) ==
    Chosen(CHOOSE i \in 1..Len(instances) :
              /\ \A j \in 1..Len(instances) :
                    instances[i].active_connections <= instances[j].active_connections
              /\ \A j \in (i + 1)..Len(instances) :
                    instances[j].active_connections > instances[i].active_connections,
           counter)

\* Python's min(): the first of the minimal elements
LeastConnectionsSelect(instances, counter) ==
    Chosen(CHOOSE i \in 1..Len(instances) :
              /\ \A j \in 1..Len(instances) :
                    instances[i].active_connections <= instances[j].active_connections
              /\ \A j \in 1..(i - 1) :
                    instances[j].active_connections > instances[i].active_connections,
           counter)

\* the weight accumulated by the walk after the first k instances
PrefixWeight(instances, k) == SumWeight(SubSeq(instances, 1, k))

\* the walk stopping at target <= current_weight
WeightedRoundRobinSelect_OffByOne(instances, counter) ==
    LET total_weight == SumWeight(instances)
        target == counter % total_weight
        hits == {k \in 1..Len(instances) : target <= PrefixWeight(instances, k)}
    IN  IF total_weight = 0 THEN Raised(counter)
        ELSE IF hits # {}
             THEN Chosen(CHOOSE k \in hits : \A m \in hits : k <= m, counter + 1)
             ELSE Chosen(1, counter)

WeightedRoundRobinSelect(instances, counter) ==
    LET total_weight == SumWeight(instances)
        target == counter % total_weight
        hits == {k \in 1..Len(instances) : target < PrefixWeight(instances, k)}
    IN  IF total_weight = 0 THEN Raised(counter)   \* ZeroDivisionError
        ELSE IF hits # {}
             THEN Chosen(CHOOSE k \in hits : \A m \in hits : k <= m, counter + 1)
             ELSE Chosen(1, counter)

\* avg_response_time(a) <= avg_response_time(b), without dividing
AvgLeq(a, b) ==
    LET na == IF a.total_requests = 0 THEN 0 ELSE a.total_response_time
        da == IF a.total_requests = 0 THEN 1 ELSE a.total_requests
        nb == IF b.total_requests = 0 THEN 0 ELSE b.total_response_time
        db == IF b.total_requests = 0 THEN 1 ELSE b.total_requests
    IN  na * db <= nb * da

\* a response-time selection that takes the last of the instances tied
ResponseTimeSelect_LastTied(instances, counter) ==
    Chosen(CHOOSE i \in 1..Len(instances) :
              /\ \A j \in 1..Len(instances) : AvgLeq(instances[i], instances[j])
              /\ \A j \in (i + 1)..Len(instances) :
                    ~AvgLeq(instances[j], instances[i]),
           counter)

ResponseTimeSelect(instances, counter) ==
    Chosen(CHOOSE i \in 1..Len(instances) :
              /\ \A j \in 1..Len(instances) : AvgLeq(instances[i], instances[j])
              /\ \A j \in 1..(i - 1) : ~AvgLeq(instances[j], instances[i]),
           counter)

SelectInstance(alg, instances, counter) ==
    CASE alg = ROUND_ROBIN -> RoundRobinSelect(instances, counter)
      [] alg = LEAST_CONNECTIONS -> LeastConnectionsSelect(instances, counter)
      [] alg = WEIGHTED_ROUND_ROBIN -> WeightedRoundRobinSelect(instances, counter)
      [] alg = RESPONSE_TIME -> ResponseTimeSelect(instances, counter)
      [] OTHER -> Chosen(1, counter)


(***************************************************************************)
(* State after LoadBalancer.__init__                                        *)
(***************************************************************************)
\* ret: the last call (op, its agent_type t and its other argument arg) and
\* how it ended: raised, or returned uid (get_agent) or ok (a bool)
NoRet == [op |-> "__init__", t |-> "", arg |-> 0, raised |-> FALSE, uid |-> 0,
          ok |-> TRUE]
Ret(op, t, arg, raised, uid, ok) ==
    [op |-> op, t |-> t, arg |-> arg, raised |-> raised, uid |-> uid, ok |-> ok]
\* a call that returns None
Done(op, t, arg) == Ret(op, t, arg, FALSE, 0, TRUE)

DefaultWeights ==
    [t \in AgentTypes |->
        IF t = "Dabby Consultant" THEN 3 ELSE 2]

\* _initialize_agent_pools: two instances of the consultant, one of the others
InitialPool(t) ==
    LET one == CreateAgentInstance(t, <<>>, DefaultWeights, 1)
    IN  IF t = "Dabby Consultant"
        THEN CreateAgentInstance(t, one, DefaultWeights, 2)
        ELSE one

Init ==
    /\ algorithm = ROUND_ROBIN
    /\ agent_pools = [t \in AgentTypes |-> InitialPool(t)]
    /\ round_robin_counters = [t \in AgentTypes |-> 0]
    /\ agent_weights = DefaultWeights
    /\ created = [t \in AgentTypes |-> Len(InitialPool(t))]
    /\ now = 0
    /\ hc_pc = "sleep"
    /\ ret = NoRet
    /\ calls = 0
    /\ picked = <<>>
    /\ TaskSchedulerInit
    /\ ThreadsIdle

(***************************************************************************)
(* get_agent                                                                *)
(***************************************************************************)
\* the pool after the two guarded creations of get_agent (an absent or empty
\* pool, then no healthy instance), and the positions selection chooses among
EnsuredPool(t, pool, weights, uid) ==
    LET p1 == IF pool = <<>> THEN CreateAgentInstance(t, pool, weights, uid + 1)
              ELSE pool
        u1 == IF pool = <<>> THEN uid + 1 ELSE uid
    IN  IF HealthyIdx(p1) = <<>>
        THEN [pool |-> CreateAgentInstance(t, p1, weights, u1 + 1),
              idx |-> <<Len(p1) + 1>>, uid |-> u1 + 1]
        ELSE [pool |-> p1, idx |-> HealthyIdx(p1), uid |-> u1]

\* a metric update that does not count the request
Used_Uncounted(inst, time) ==
    [inst EXCEPT !.active_connections = @ + 1,
                 !.last_used = time]

\* the metric update of the selected instance
Used(inst, time) ==
    [inst EXCEPT !.active_connections = @ + 1,
                 !.total_requests = @ + 1,
                 !.last_used = time]

GetAgent(t) ==
    LET e == EnsuredPool(t, agent_pools[t], agent_weights, created[t])
        instances == [k \in 1..Len(e.idx) |-> e.pool[e.idx[k]]]
        sel == SelectInstance(algorithm, instances, round_robin_counters[t])
        i == e.idx[sel.pos]
    IN  /\ created' = [created EXCEPT ![t] = e.uid]
        /\ IF sel.raised
           THEN /\ agent_pools' = [agent_pools EXCEPT ![t] = e.pool]
                /\ UNCHANGED <<round_robin_counters, now>>
                /\ ret' = Ret("get_agent", t, 0, TRUE, 0, FALSE)
           ELSE /\ agent_pools' =
                      [agent_pools EXCEPT ![t] =
                          [e.pool EXCEPT ![i] = Used(e.pool[i], now + 1)]]
                /\ round_robin_counters' =
                      [round_robin_counters EXCEPT ![t] = sel.counter]
                /\ now' = now + 1
                /\ ret' = Ret("get_agent", t, 0, FALSE, e.pool[i].uid, TRUE)
        /\ UNCHANGED <<algorithm, agent_weights, hc_pc>>

(***************************************************************************)
(* release_agent                                                            *)
(***************************************************************************)
\* max(instances, key=last_used): the first of the most recently used
MostRecent(pool) ==
    CHOOSE i \in 1..Len(pool) :
        /\ \A j \in 1..Len(pool) : pool[j].last_used <= pool[i].last_used
        /\ \A j \in 1..(i - 1) : pool[j].last_used < pool[i].last_used

\* the decrement without max(0, ...)
Released_Unfloored(inst, response_time) ==
    [inst EXCEPT
        !.active_connections = @ - 1,
        !.total_response_time = @ + response_time]

Released(inst, response_time) ==
    [inst EXCEPT
        !.active_connections = IF @ - 1 > 0 THEN @ - 1 ELSE 0,
        !.total_response_time = @ + response_time]

ReleaseAgent(t, response_time) ==
    /\ agent_pools' =
          IF agent_pools[t] = <<>> THEN agent_pools
          ELSE [agent_pools EXCEPT ![t] =
                   [@ EXCEPT ![MostRecent(@)] = Released(@, response_time)]]
    /\ ret' = Done("release_agent", t, response_time)
    /\ UNCHANGED <<algorithm, round_robin_counters, agent_weights, created,
                   now, hc_pc>>

(***************************************************************************)
(* add_agent_instance, remove_agent_instance, scale_up, scale_down          *)
(***************************************************************************)
\* add_agent_instance: _create_agent_instance, then instance.weight = weight
AddedPool(t, pool, weights, uid, weight) ==
    LET p == CreateAgentInstance(t, pool, weights, uid)
    IN  [p EXCEPT ![Len(p)].weight = weight]

AddAgentInstance(t, weight) ==
    /\ agent_pools' = [agent_pools EXCEPT ![t] =
          AddedPool(t, @, agent_weights, created[t] + 1, weight)]
    /\ created' = [created EXCEPT ![t] = @ + 1]
    /\ ret' = Ret("add_agent_instance", t, weight, FALSE, created[t] + 1, TRUE)
    /\ UNCHANGED <<algorithm, round_robin_counters, agent_weights, now, hc_pc>>

\* positions whose agent_id is the one asked for
WithId(pool, agent_id) == {i \in 1..Len(pool) : pool[i].agent_id = agent_id}

\* instances.pop(i) for the first i with that agent_id
RemovedPool(pool, agent_id) ==
    IF WithId(pool, agent_id) = {} THEN pool
    ELSE LET i == CHOOSE k \in WithId(pool, agent_id) :
                      \A m \in WithId(pool, agent_id) : k <= m
         IN  SubSeq(pool, 1, i - 1) \o SubSeq(pool, i + 1, Len(pool))

RemoveAgentInstance(t, agent_id) ==
    /\ agent_pools' = [agent_pools EXCEPT ![t] = RemovedPool(@, agent_id)]
    /\ ret' = Ret("remove_agent_instance", t, agent_id, FALSE, 0,
                  WithId(agent_pools[t], agent_id) # {})
    /\ UNCHANGED <<algorithm, round_robin_counters, agent_weights, created,
                   now, hc_pc>>

\* scale_up: add_agent_instance(agent_type) n times, weight left at its default 1
RECURSIVE ScaledUpPool(_, _, _, _, _)
ScaledUpPool(t, pool, weights, uid, n) ==
    IF n <= 0 THEN pool
    ELSE ScaledUpPool(t, AddedPool(t, pool, weights, uid + 1, 1),
                      weights, uid + 1, n - 1)

ScaleUp(t, n) ==
    /\ agent_pools' = [agent_pools EXCEPT ![t] =
          ScaledUpPool(t, @, agent_weights, created[t], n)]
    /\ created' = [created EXCEPT ![t] = IF n > 0 THEN @ + n ELSE @]
    /\ ret' = Done("scale_up", t, n)
    /\ UNCHANGED <<algorithm, round_robin_counters, agent_weights, now, hc_pc>>

\* sorted(instances, key=active_connections): a stable sort
Before(pool, i, j) ==
    \/ pool[i].active_connections < pool[j].active_connections
    \/ /\ pool[i].active_connections = pool[j].active_connections
       /\ i < j

SortedByConnections(pool) ==
    [k \in 1..Len(pool) |->
        pool[CHOOSE i \in 1..Len(pool) :
                Cardinality({j \in 1..Len(pool) : Before(pool, j, i)}) = k - 1]]

\* the loop of scale_down: remove_agent_instance for the ids of the first n
\* of the sorted copy
RECURSIVE RemoveIds(_, _)
RemoveIds(pool, ids) ==
    IF ids = <<>> THEN pool
    ELSE RemoveIds(RemovedPool(pool, Head(ids)), Tail(ids))

\* a guard that lets the last instances go
ScaleDownRefused_OffByOne(pool, n) == Len(pool) < n

\* "Cannot scale down below 1 instance"
ScaleDownRefused(pool, n) == Len(pool) <= n

ScaledDownPool(pool, n) ==
    IF ScaleDownRefused(pool, n) THEN pool
    ELSE LET sorted == SortedByConnections(pool)
         IN  RemoveIds(pool, [k \in 1..n |-> sorted[k].agent_id])

ScaleDown(t, n) ==
    /\ agent_pools' = [agent_pools EXCEPT ![t] = ScaledDownPool(@, n)]
    /\ ret' = Done("scale_down", t, n)
    /\ UNCHANGED <<algorithm, round_robin_counters, agent_weights, created,
                   now, hc_pc>>


(***************************************************************************)
(* Health checker thread: one pass over every instance, then auto_scale     *)
(***************************************************************************)
\* _health_check_instance; probe is how the liveness probe ended: "ok",
\* "slow" (longer than max_response_time) or "raise"
HealthChecked(inst, probe) ==
    IF probe = "raise" THEN [inst EXCEPT !.health_status = "unhealthy"]
    ELSE LET timed == IF probe = "slow" THEN "unhealthy" ELSE "healthy"
         IN  [inst EXCEPT !.health_status =
                 IF inst.active_connections > max_connections_per_agent
                 THEN "overloaded" ELSE timed]

Positions(pools) ==
    UNION {{<<t, i>> : i \in 1..Len(pools[t])} : t \in AgentTypes}

\* a pass that a raising probe ends: the exception reaches the handler of
\* _health_checker, the instances are left as they were and auto_scale is
\* skipped
HealthCheckPass_Aborting(probe) ==
    /\ hc_pc = "sleep"
    /\ IF \E p \in DOMAIN probe : probe[p] = "raise"
       THEN UNCHANGED <<agent_pools, hc_pc>>
       ELSE /\ agent_pools' =
                  [t \in AgentTypes |->
                      [i \in 1..Len(agent_pools[t]) |->
                          HealthChecked(agent_pools[t][i], probe[<<t, i>>])]]
            /\ hc_pc' = "scale"
    /\ ret' = Done("health_check", "", 0)
    /\ UNCHANGED <<algorithm, round_robin_counters, agent_weights, created, now>>

HealthCheckPass(probe) ==
    /\ hc_pc = "sleep"
    /\ agent_pools' =
          [t \in AgentTypes |->
              [i \in 1..Len(agent_pools[t]) |->
                  HealthChecked(agent_pools[t][i], probe[<<t, i>>])]]
    /\ hc_pc' = "scale"
    /\ ret' = Done("health_check", "", 0)
    /\ UNCHANGED <<algorithm, round_robin_counters, agent_weights, created, now>>

\* a scale-up threshold that is reached at exactly 70% of the ceiling
ScaleUpWanted_Inclusive(pool) ==
    10 * SumConnections(pool) >= 7 * max_connections_per_agent * Len(pool)

\* avg_connections > max_connections_per_agent * 0.7, in integers
ScaleUpWanted(pool) ==
    10 * SumConnections(pool) > 7 * max_connections_per_agent * Len(pool)

\* avg_connections < max_connections_per_agent * 0.3, in integers
ScaleDownWanted(pool) ==
    10 * SumConnections(pool) < 3 * max_connections_per_agent * Len(pool)

\* a ceiling that lets a pool of five grow
BelowCeiling_OffByOne(pool) == Len(pool) <= MaxInstancesPerType

\* len(instances) < 5
BelowCeiling(pool) == Len(pool) < MaxInstancesPerType

\* the body of auto_scale's loop for one type; s = [pools, created]
AutoScaledType(s, t, weights) ==
    LET pool == s.pools[t]
    IN  IF pool = <<>> THEN s
        ELSE IF ScaleUpWanted(pool)
        THEN IF BelowCeiling(pool)
             THEN [pools |-> [s.pools EXCEPT ![t] =
                                 ScaledUpPool(t, pool, weights, s.created[t], 1)],
                   created |-> [s.created EXCEPT ![t] = @ + 1]]
             ELSE s
        ELSE IF ScaleDownWanted(pool) /\ Len(pool) > 1
        THEN [pools |-> [s.pools EXCEPT ![t] = ScaledDownPool(pool, 1)],
              created |-> s.created]
        ELSE s

RECURSIVE AutoScaled(_, _, _)
AutoScaled(s, types, weights) ==
    IF types = <<>> THEN s
    ELSE AutoScaled(AutoScaledType(s, Head(types), weights), Tail(types), weights)

AutoScale ==
    LET s == AutoScaled([pools |-> agent_pools, created |-> created],
                        TypeOrder, agent_weights)
    IN  /\ hc_pc = "scale"
        /\ agent_pools' = s.pools
        /\ created' = s.created
        /\ hc_pc' = "sleep"
        /\ ret' = Done("auto_scale", "", 0)
        /\ UNCHANGED <<algorithm, round_robin_counters, agent_weights, now>>

(***************************************************************************)
(* set_algorithm, set_agent_weight                                          *)
(***************************************************************************)
SetAlgorithm(alg) ==
    /\ algorithm' = alg
    /\ ret' = Done("set_algorithm", "", 0)
    /\ UNCHANGED <<agent_pools, round_robin_counters, agent_weights, created,
                   now, hc_pc>>

Reweighted(pool, weight) ==
    [i \in 1..Len(pool) |-> [pool[i] EXCEPT !.weight = weight]]

SetAgentWeight(t, weight) ==
    /\ agent_weights' = [agent_weights EXCEPT ![t] = weight]
    /\ agent_pools' = [agent_pools EXCEPT ![t] = Reweighted(@, weight)]
    /\ ret' = Done("set_agent_weight", t, weight)
    /\ UNCHANGED <<algorithm, round_robin_counters, created, now, hc_pc>>

(***************************************************************************)
(* The dispatcher, every call taken as one step                             *)
(***************************************************************************)
\* one probe fails, or all of them end the same way
ProbeChoices(pools) ==
    {[p \in Positions(pools) |-> IF p = q THEN o ELSE "ok"] :
        q \in Positions(pools), o \in Probes}
    \cup {[p \in Positions(pools) |-> o] : o \in Probes}

\* a call, counted; each specification explores a bounded number of them
Within(bound, A) ==
    /\ calls < bound /\ calls' = calls + 1 /\ A
    /\ UNCHANGED <<picked, schedVars, threadVars>>
Counted(A) == Within(MaxCalls, A)
Next ==
    \/ \E t \in AgentTypes : Counted(GetAgent(t))
    \/ \E t \in AgentTypes, r \in ResponseTimes : Counted(ReleaseAgent(t, r))
    \/ \E t \in AgentTypes, w \in Weights : Counted(AddAgentInstance(t, w))
    \/ \E t \in AgentTypes : \E id \in 0..Len(agent_pools[t]) :
          Counted(RemoveAgentInstance(t, id))
    \/ \E t \in AgentTypes, n \in 0..MaxScale : Counted(ScaleUp(t, n))
    \/ \E t \in AgentTypes, n \in 0..MaxScale : Counted(ScaleDown(t, n))
    \/ \E probe \in ProbeChoices(agent_pools) : Counted(HealthCheckPass(probe))
    \/ Counted(AutoScale)
    \/ \E alg \in LoadBalancingAlgorithm : Counted(SetAlgorithm(alg))
    \/ \E t \in AgentTypes, w \in Weights : Counted(SetAgentWeight(t, w))

Spec == Init /\ [][Next]_vars


(***************************************************************************)
(* The calls that shape one pool: creation, removal, scaling, and get_agent *)
(* for the connection counts scale_down sorts by                            *)
(***************************************************************************)
ScaledType == "Dabby Consultant"

ScaleCall(A) == Within(MaxScaleCalls, A)

NextScale ==
    \/ ScaleCall(GetAgent(ScaledType))
    \/ \E w \in Weights : ScaleCall(AddAgentInstance(ScaledType, w))
    \/ \E id \in 0..Len(agent_pools[ScaledType]) :
          ScaleCall(RemoveAgentInstance(ScaledType, id))
    \/ \E n \in 0..MaxScale : ScaleCall(ScaleUp(ScaledType, n))
    \/ \E n \in 0..MaxScale : ScaleCall(ScaleDown(ScaledType, n))

SpecScale == Init /\ [][NextScale]_vars

(***************************************************************************)
(* The health checker's loop, from pools as earlier traffic left them       *)
(***************************************************************************)
\* active_connections as get_agent and release_agent left them: none, the two
\* thresholds of auto_scale (30% and 70% of the ceiling), and above
ConnLevels == {0, 3, 7, 8}

RECURSIVE SumSeq(_)
SumSeq(q) == IF q = <<>> THEN 0 ELSE Head(q) + SumSeq(Tail(q))

\* the pool of type t after Len(conns) creations and, one instance after the
\* other (the rest failing their probes meanwhile), conns[i] calls of
\* get_agent still unreleased
LoadedPool(t, conns) ==
    [i \in 1..Len(conns) |->
        [AgentInstance(i, i - 1, DefaultWeights[t]) EXCEPT
            !.active_connections = conns[i],
            !.total_requests = conns[i],
            !.last_used = IF conns[i] = 0 THEN 0
                          ELSE SumSeq(SubSeq(conns, 1, i))]]

LoadedType == "Dabby Consultant"

InitLoaded ==
    \E n \in 1..MaxPool : \E conns \in [1..n -> ConnLevels] :
        /\ algorithm = ROUND_ROBIN
        /\ agent_pools = [t \in AgentTypes |->
              IF t = LoadedType THEN LoadedPool(t, conns) ELSE InitialPool(t)]
        /\ round_robin_counters = [t \in AgentTypes |-> 0]
        /\ agent_weights = DefaultWeights
        /\ created = [t \in AgentTypes |->
              IF t = LoadedType THEN n ELSE Len(InitialPool(t))]
        /\ now = SumSeq(conns)
        /\ hc_pc \in {"sleep", "scale"}
        /\ ret = NoRet
        /\ calls = 0
        /\ picked = <<>>
        /\ TaskSchedulerInit
        /\ ThreadsIdle

\* every probe of a pass ends the same way
UniformProbes(pools) == {[p \in Positions(pools) |-> o] : o \in Probes}

NextAuto ==
    \/ \E probe \in UniformProbes(agent_pools) :
          Within(MaxAutoCalls, HealthCheckPass(probe))
    \/ Within(MaxAutoCalls, AutoScale)

SpecAuto == InitLoaded /\ [][NextAuto]_vars

(***************************************************************************)
(* Consecutive calls of get_agent on one pool, from pools as earlier calls  *)
(* left them: weights from add_agent_instance, health from the checker,     *)
(* connections from get_agent, the cursor from either round robin           *)
(***************************************************************************)
HealthStatuses == {"healthy", "unhealthy", "overloaded"}
SelWeights == {0, 1, 2, 3}
SelConns == {0, 1, 2}

SelType == "Dabby Consultant"

SelectedPool(t, conns, weights, health) ==
    [i \in 1..Len(conns) |->
        [LoadedPool(t, conns)[i] EXCEPT
            !.weight = weights[i], !.health_status = health[i]]]

\* the fields an algorithm does not read are left as created
InitSelect ==
    \E n \in 1..MaxSel, alg \in LoadBalancingAlgorithm :
    \E down \in SUBSET (1..n), status \in HealthStatuses \ {"healthy"} :
    \E health \in {[i \in 1..n |-> IF i \in down THEN status ELSE "healthy"]} :
    \E weights \in IF alg = WEIGHTED_ROUND_ROBIN THEN [1..n -> SelWeights]
                   ELSE {[i \in 1..n |-> DefaultWeights[SelType]]} :
    \E conns \in IF alg = LEAST_CONNECTIONS THEN [1..n -> SelConns]
                 ELSE {[i \in 1..n |-> 0]} :
        /\ algorithm = alg
        /\ agent_pools = [t \in AgentTypes |->
              IF t = SelType THEN SelectedPool(t, conns, weights, health)
              ELSE InitialPool(t)]
        /\ round_robin_counters \in
              {[t \in AgentTypes |-> IF t = SelType THEN c ELSE 0] :
                  c \in 0..MaxCursor}
        /\ agent_weights = DefaultWeights
        /\ created = [t \in AgentTypes |->
              IF t = SelType THEN n ELSE Len(InitialPool(t))]
        /\ now = SumSeq(conns)
        /\ hc_pc = "sleep"
        /\ ret = NoRet
        /\ calls = 0
        /\ picked = <<>>
        /\ TaskSchedulerInit
        /\ ThreadsIdle

NextSelect ==
    /\ calls < MaxTrace
    /\ calls' = calls + 1
    /\ GetAgent(SelType)
    /\ picked' = Append(picked, ret'.uid)
    /\ UNCHANGED <<schedVars, threadVars>>

SpecSelect == InitSelect /\ [][NextSelect]_vars

(***************************************************************************)
(* Claims about the dispatcher                                              *)
(***************************************************************************)
\* this step is a call of op
Called(op) == calls' = calls + 1 /\ ret'.op = op

HasHealthy(pool) == HealthyIdx(pool) # <<>>

\* C1: get_agent returns an instance that is healthy when selected; with no
\* healthy instance in the pool exactly one instance is appended and it is
\* the one returned; with a healthy instance the pool keeps its size.
C1_AcquireReturnsHealthy ==
    [][\A t \in AgentTypes :
          (Called("get_agent") /\ ret'.t = t) =>
              LET before == agent_pools[t]
                  after == agent_pools'[t]
              IN  /\ ~ret'.raised
                  /\ \E i \in 1..Len(after) :
                        /\ after[i].uid = ret'.uid
                        /\ after[i].health_status = "healthy"
                  /\ IF HasHealthy(before)
                     THEN /\ Len(after) = Len(before)
                          /\ \E i \in 1..Len(before) :
                                /\ before[i].uid = ret'.uid
                                /\ before[i].health_status = "healthy"
                     ELSE /\ Len(after) = Len(before) + 1
                          /\ SubSeq(after, 1, Len(before)) = before
                          /\ after[Len(after)].uid = ret'.uid]_vars

\* what C1 says of the calls of get_agent that return
C1_WhenItReturns ==
    [][\A t \in AgentTypes :
          (Called("get_agent") /\ ret'.t = t /\ ~ret'.raised) =>
              LET before == agent_pools[t]
                  after == agent_pools'[t]
              IN  /\ \E i \in 1..Len(after) :
                        /\ after[i].uid = ret'.uid
                        /\ after[i].health_status = "healthy"
                  /\ IF HasHealthy(before)
                     THEN /\ Len(after) = Len(before)
                          /\ \E i \in 1..Len(before) :
                                /\ before[i].uid = ret'.uid
                                /\ before[i].health_status = "healthy"
                     ELSE /\ Len(after) = Len(before) + 1
                          /\ SubSeq(after, 1, Len(before)) = before
                          /\ after[Len(after)].uid = ret'.uid]_vars

\* C8: every pool holds at most 5 instances in every reachable state.
C8_AtMostFive ==
    \A t \in AgentTypes : Len(agent_pools[t]) <= MaxInstancesPerType

\* C9: a pool that has ever held an instance holds at least one.
C9_NeverEmpty ==
    \A t \in AgentTypes : created[t] > 0 => Len(agent_pools[t]) >= 1


\* C6: scale_down never reduces a pool below one instance, whatever n is:
\* either it removes nothing or at least one instance is left.
C6_ScaleDownKeepsOne ==
    [][\A t \in AgentTypes :
          (Called("scale_down") /\ ret'.t = t) =>
              \/ Len(agent_pools'[t]) >= 1
              \/ agent_pools'[t] = agent_pools[t]]_vars

\* scale_down was asked for at least as many instances as the pool held (no
\* more than were ever created), and the pool still holds one
C6_Witness ==
    /\ ret.op = "scale_down"
    /\ ret.arg >= created[ret.t]
    /\ Len(agent_pools[ret.t]) >= 1

\* scale_down removed instances and left exactly one
C6_WitnessRemoved ==
    /\ ret.op = "scale_down"
    /\ ret.arg >= 1
    /\ Len(agent_pools[ret.t]) = 1
    /\ created[ret.t] = 1 + ret.arg

\* C7: auto_scale never grows a pool of 5 or more, never shrinks a pool of 1,
\* and leaves a pool of 1 to 5 instances with 1 to 5 instances.
C7_AutoScaleWithinLimits ==
    [][Called("auto_scale") =>
          \A t \in AgentTypes :
              LET before == Len(agent_pools[t])
                  after == Len(agent_pools'[t])
              IN  /\ before >= MaxInstancesPerType => after <= before
                  /\ before = 1 => after >= 1
                  /\ before \in 1..MaxInstancesPerType =>
                        after \in 1..MaxInstancesPerType]_vars

\* auto_scale has run on a full pool whose mean load asks for one more
\* instance: every instance over 70% of the ceiling, five of them
C7_Witness ==
    /\ ret.op = "auto_scale"
    /\ Len(agent_pools[LoadedType]) = MaxInstancesPerType
    /\ created[LoadedType] = MaxInstancesPerType
    /\ \A i \in 1..Len(agent_pools[LoadedType]) :
          agent_pools[LoadedType][i].active_connections = 8


(***************************************************************************)
(* Claims about consecutive selections (SpecSelect)                         *)
(***************************************************************************)
HealthyOf(pool) == {i \in 1..Len(pool) : pool[i].health_status = "healthy"}

\* C2: under round robin on a stable pool with k healthy instances, any k
\* consecutive calls of get_agent return k distinct healthy instances and
\* the call after them returns the first of them again, whatever the cursor.
C2_RoundRobinCycle ==
    algorithm = ROUND_ROBIN =>
        LET pool == agent_pools[SelType]
            healthy == {pool[i].uid : i \in HealthyOf(pool)}
            k == Cardinality(HealthyOf(pool))
        IN  /\ \A i \in 1..Len(picked) : picked[i] \in healthy
            /\ \A i, j \in 1..Len(picked) :
                  (i < j /\ j < i + k) => picked[i] # picked[j]
            /\ \A i \in 1..(Len(picked) - k) : picked[i + k] = picked[i]

\* round robin has gone once round two or more healthy instances, past an
\* instance that is not healthy, and has come back to the first
C2_Witness ==
    /\ algorithm = ROUND_ROBIN
    /\ Cardinality(HealthyOf(agent_pools[SelType])) >= 2
    /\ HealthyOf(agent_pools[SelType]) # 1..Len(agent_pools[SelType])
    /\ Len(picked) > Cardinality(HealthyOf(agent_pools[SelType]))

\* C3: under weighted round robin on a stable pool of healthy instances whose
\* weights sum to total_weight, any total_weight consecutive calls of
\* get_agent select each instance exactly weight times.
C3_WeightedShares ==
    algorithm = WEIGHTED_ROUND_ROBIN =>
        LET pool == agent_pools[SelType]
            total_weight ==
                SumWeight([k \in 1..Len(HealthyIdx(pool)) |-> pool[HealthyIdx(pool)[k]]])
        IN  total_weight >= 1 =>
            \A first \in 1..(Len(picked) - total_weight + 1) :
                \A i \in HealthyOf(pool) :
                    Cardinality({j \in first..(first + total_weight - 1) :
                                    picked[j] = pool[i].uid}) = pool[i].weight

\* the scenario of weights 3, 2, 2: seven calls and more have been made
C3_Witness ==
    /\ algorithm = WEIGHTED_ROUND_ROBIN
    /\ Len(agent_pools[SelType]) = 3
    /\ HealthyOf(agent_pools[SelType]) = 1..3
    /\ [i \in 1..3 |-> agent_pools[SelType][i].weight] = <<3, 2, 2>>
    /\ Len(picked) >= 8

\* C4: under least connections get_agent selects a healthy instance whose
\* active_connections, read before the increment, is no more than that of any
\* other healthy instance, and the earliest in pool order of those tied.
C4_LeastConnections ==
    [][(Called("get_agent") /\ algorithm = LEAST_CONNECTIONS) =>
          LET t == ret'.t
              before == agent_pools[t]
              after == agent_pools'[t]
          IN  \E i \in HealthyOf(after) :
                /\ after[i].uid = ret'.uid
                /\ i <= Len(before) =>
                      /\ before[i].health_status = "healthy"
                      /\ \A j \in HealthyOf(before) :
                            before[i].active_connections
                                <= before[j].active_connections
                      /\ \A j \in HealthyOf(before) :
                            j < i => before[i].active_connections
                                        < before[j].active_connections
                /\ i > Len(before) => HealthyOf(before) = {}]_vars

\* least connections has chosen the first of two healthy instances tied at
\* the minimum, passing over an earlier instance that is not healthy
C4_Witness ==
    /\ algorithm = LEAST_CONNECTIONS
    /\ ret.op = "get_agent"
    /\ LET pool == agent_pools[ret.t]
       IN  \E h, i, j \in 1..Len(pool) :
             /\ h < i /\ i < j
             /\ pool[h].health_status # "healthy"
             /\ pool[h].active_connections < pool[i].active_connections - 1
             /\ pool[i].uid = ret.uid
             /\ pool[j].health_status = "healthy"
             /\ pool[j].active_connections = pool[i].active_connections - 1


(***************************************************************************)
(* Calls made by several threads at once: each call advances in the steps   *)
(* between which the other threads can run                                  *)
(***************************************************************************)
MaxThreadCalls == 4

ThreadType == "Dabby Consultant"

\* the position in pool of the AgentInstance object uid, 0 if it is not there
PosOf(pool, uid) ==
    IF \E i \in 1..Len(pool) : pool[i].uid = uid
    THEN CHOOSE i \in 1..Len(pool) : pool[i].uid = uid
    ELSE 0

\* the instances a thread holds references to, as they are now
Resolve(pool, uids) == [k \in 1..Len(uids) |-> pool[PosOf(pool, uids[k])]]

\* a thread begins a call: one more call made
Begin(th, label, locals) ==
    /\ pc[th] = "idle"
    /\ calls < MaxThreadCalls
    /\ calls' = calls + 1
    /\ pc' = [pc EXCEPT ![th] = label]
    /\ frame' = [frame EXCEPT ![th] = locals]

\* a thread returns from its call
Return(th) ==
    /\ pc' = [pc EXCEPT ![th] = "idle"]
    /\ frame' = [frame EXCEPT ![th] = NoFrame]
    /\ UNCHANGED calls

\* get_agent, lines 100-111: take the lock, create what is missing, filter
GetAgentEnter(th, t) ==
    LET e == EnsuredPool(t, agent_pools[t], agent_weights, created[t])
    IN  /\ lock = 0
        /\ lock' = th
        /\ Begin(th, "select",
                 [NoFrame EXCEPT !.t = t,
                     !.instances = [k \in 1..Len(e.idx) |-> e.pool[e.idx[k]].uid]])
        /\ agent_pools' = [agent_pools EXCEPT ![t] = e.pool]
        /\ created' = [created EXCEPT ![t] = e.uid]
        /\ UNCHANGED <<algorithm, round_robin_counters, agent_weights, now,
                       hc_pc, ret>>

\* get_agent, lines 117-121: the metric update, then the lock is released
GetAgentReturn(th, t, uid, counter) ==
    /\ agent_pools' = [agent_pools EXCEPT ![t] =
          [@ EXCEPT ![PosOf(@, uid)] = Used(@, now + 1)]]
    /\ round_robin_counters' = [round_robin_counters EXCEPT ![t] = counter]
    /\ now' = now + 1
    /\ ret' = Ret("get_agent", t, 0, FALSE, uid, TRUE)
    /\ lock' = 0
    /\ Return(th)
    /\ UNCHANGED <<algorithm, agent_weights, created, hc_pc>>

\* get_agent, line 114: _select_instance; under weighted round robin only
\* total_weight is computed here (line 153), the walk follows
GetAgentSelect(th) ==
    LET t == frame[th].t
        instances == Resolve(agent_pools[t], frame[th].instances)
        sel == SelectInstance(algorithm, instances, round_robin_counters[t])
    IN  /\ pc[th] = "select"
        /\ IF algorithm # WEIGHTED_ROUND_ROBIN
           THEN GetAgentReturn(th, t, frame[th].instances[sel.pos], sel.counter)
           ELSE IF SumWeight(instances) = 0
           THEN /\ ret' = Ret("get_agent", t, 0, TRUE, 0, FALSE)
                /\ lock' = 0
                /\ Return(th)
                /\ UNCHANGED <<algorithm, agent_pools, round_robin_counters,
                               agent_weights, created, now, hc_pc>>
           ELSE /\ pc' = [pc EXCEPT ![th] = "walk"]
                /\ frame' = [frame EXCEPT
                                ![th].total_weight = SumWeight(instances)]
                /\ UNCHANGED <<lbVars, lock, calls>>

\* _weighted_round_robin_select, lines 154-164, with the total_weight it holds
WeightedWalk(instances, counter, total_weight) ==
    LET target == counter % total_weight
        hits == {k \in 1..Len(instances) : target < PrefixWeight(instances, k)}
    IN  IF hits # {}
        THEN Chosen(CHOOSE k \in hits : \A m \in hits : k <= m, counter + 1)
        ELSE Chosen(1, counter)

GetAgentWalk(th) ==
    LET t == frame[th].t
        instances == Resolve(agent_pools[t], frame[th].instances)
        sel == WeightedWalk(instances, round_robin_counters[t],
                            frame[th].total_weight)
    IN  /\ pc[th] = "walk"
        /\ GetAgentReturn(th, t, frame[th].instances[sel.pos], sel.counter)

\* add_agent_instance -> _create_agent_instance, lines 81-90: the id from
\* len(pool) and the AgentInstance object, made without the lock
AddPrepare(th, t, weight) ==
    /\ Begin(th, "append",
             [NoFrame EXCEPT !.t = t, !.uid = created[t] + 1,
                 !.agent_id = Len(agent_pools[t]),
                 !.made_weight = agent_weights[t], !.weight = weight])
    /\ created' = [created EXCEPT ![t] = @ + 1]
    /\ UNCHANGED <<algorithm, agent_pools, round_robin_counters, agent_weights,
                   now, hc_pc, ret, lock>>

\* _create_agent_instance, lines 92-93: the append, under the lock
AddAppend(th) ==
    /\ pc[th] = "append"
    /\ lock = 0
    /\ agent_pools' = [agent_pools EXCEPT ![frame[th].t] =
          Append(@, AgentInstance(frame[th].uid, frame[th].agent_id,
                                  frame[th].made_weight))]
    /\ pc' = [pc EXCEPT ![th] = "weight"]
    /\ UNCHANGED <<algorithm, round_robin_counters, agent_weights, created,
                   now, hc_pc, ret, lock, frame, calls>>

\* add_agent_instance, lines 192-193: instance.weight = weight, no lock held
AddWeight(th) ==
    LET t == frame[th].t
        i == PosOf(agent_pools[t], frame[th].uid)
    IN  /\ pc[th] = "weight"
        /\ agent_pools' =
              IF i = 0 THEN agent_pools
              ELSE [agent_pools EXCEPT ![t][i].weight = frame[th].weight]
        /\ ret' = Ret("add_agent_instance", t, frame[th].weight, FALSE,
                      frame[th].uid, TRUE)
        /\ Return(th)
        /\ UNCHANGED <<algorithm, round_robin_counters, agent_weights, created,
                       now, hc_pc, lock>>

\* set_agent_weight, line 357: the configured weight, written with no lock
WeightWrite(th, t, weight) ==
    /\ Begin(th, "update", [NoFrame EXCEPT !.t = t, !.weight = weight])
    /\ agent_weights' = [agent_weights EXCEPT ![t] = weight]
    /\ UNCHANGED <<algorithm, agent_pools, round_robin_counters, created, now,
                   hc_pc, ret, lock>>

\* set_agent_weight, lines 360-365: every instance of the pool, under the lock
WeightUpdate(th) ==
    /\ pc[th] = "update"
    /\ lock = 0
    /\ agent_pools' = [agent_pools EXCEPT ![frame[th].t] =
          Reweighted(@, frame[th].weight)]
    /\ ret' = Done("set_agent_weight", frame[th].t, frame[th].weight)
    /\ Return(th)
    /\ UNCHANGED <<algorithm, round_robin_counters, agent_weights, created,
                   now, hc_pc, lock>>

\* a call that holds the lock from its first to its last statement
Locked(A) ==
    /\ lock = 0
    /\ calls < MaxThreadCalls
    /\ calls' = calls + 1
    /\ A
    /\ UNCHANGED threadVars

\* the algorithm was chosen by set_algorithm before the threads began
InitThreads ==
    /\ algorithm \in LoadBalancingAlgorithm
    /\ agent_pools = [t \in AgentTypes |-> InitialPool(t)]
    /\ round_robin_counters = [t \in AgentTypes |-> 0]
    /\ agent_weights = DefaultWeights
    /\ created = [t \in AgentTypes |-> Len(InitialPool(t))]
    /\ now = 0
    /\ hc_pc = "sleep"
    /\ ret = NoRet
    /\ calls = 0
    /\ picked = <<>>
    /\ TaskSchedulerInit
    /\ ThreadsIdle

\* a step of a dispatcher call; the scheduler is left alone
Thread(A) == A /\ UNCHANGED <<picked, schedVars>>

NextThreads ==
    \/ \E th \in Threads : Thread(GetAgentEnter(th, ThreadType))
    \/ \E th \in Threads : Thread(GetAgentSelect(th))
    \/ \E th \in Threads : Thread(GetAgentWalk(th))
    \/ \E th \in Threads, w \in Weights : Thread(AddPrepare(th, ThreadType, w))
    \/ \E th \in Threads : Thread(AddAppend(th))
    \/ \E th \in Threads : Thread(AddWeight(th))
    \/ \E th \in Threads, w \in Weights : Thread(WeightWrite(th, ThreadType, w))
    \/ \E th \in Threads : Thread(WeightUpdate(th))
    \/ \E r \in ResponseTimes : Thread(Locked(ReleaseAgent(ThreadType, r)))
    \/ Thread(Locked(ScaleDown(ThreadType, 1)))
    \/ \E probe \in UniformProbes(agent_pools) :
          Thread(Locked(HealthCheckPass(probe)))

SpecThreads == InitThreads /\ [][NextThreads]_vars

\* C5: from the healthy filter of a get_agent to its metric update, no step
\* of any other call (get_agent, release, scaling, weight change, health
\* check) changes a pool or a cursor.
C5_AcquireIsAtomic ==
    [][\A th \in Threads :
          (pc[th] \in {"select", "walk"} /\ pc'[th] = pc[th]) =>
              /\ agent_pools' = agent_pools
              /\ round_robin_counters' = round_robin_counters]_vars

(***************************************************************************)
(* scheduler.py: TaskScheduler                                              *)
(***************************************************************************)
MaxTasks == 1

TaskTypes == {"file_analysis", "consultation"}

\* schedule_time as schedule_task receives it: None, a string that is no ISO
\* time, or an ISO time before, at or after the clock
ScheduleTimes == {"none", "bad", "past", "now", "later"}

\* new_schedule_time as reschedule_task receives it: no ISO time, or a time
\* ahead (which Elapse then lets be reached and missed)
NewScheduleTimes == {"bad", "later"}

\* the job of a task inside APScheduler: not in the job store ("none"); in
\* the store with run_date ahead ("future"), reached ("due") or missed by
\* more than misfire_grace_time ("late"); handed to the executor
\* ("submitted"); its function _execute_task begun ("executing")
InStore(task_id) == jobs[task_id] \in {"future", "due", "late"}

\* run_date, lines 111-117: the parsed time, else one minute from now
RunDate(schedule_time) ==
    CASE schedule_time = "past" -> "late"
      [] schedule_time = "now" -> "due"
      [] OTHER -> "future"

ScheduledFor(schedule_time) ==
    IF schedule_time \in {"none", "bad"} THEN "default" ELSE schedule_time

TaskInfo(task_type, has_file, schedule_time) ==
    [status |-> "scheduled", task_type |-> task_type, has_file |-> has_file,
     scheduled_for |-> ScheduledFor(schedule_time), started_at |-> FALSE,
     result |-> FALSE, error |-> FALSE, cancelled_at |-> FALSE,
     rescheduled_at |-> FALSE, invoked |-> <<>>]

SRet(op, ok) == [op |-> op, ok |-> ok]

Known(task_id) == task_id \in 1..Len(tasks)

\* schedule_task up to line 132: the record is stored as 'scheduled'
ScheduleTask(task_type, has_file, schedule_time) ==
    /\ Len(tasks) < MaxTasks
    /\ tasks' = Append(tasks, TaskInfo(task_type, has_file, schedule_time))
    /\ jobs' = Append(jobs, "none")
    /\ schedule_pc' = Append(schedule_pc, "add_job")
    /\ UNCHANGED <<scheduler_running, sret>>

\* schedule_task, lines 135-143 and 148-153: add_job registers the one-shot
\* job, or raises and the record is marked 'failed'
AddJob(task_id, raises) ==
    /\ Known(task_id)
    /\ schedule_pc[task_id] = "add_job"
    /\ IF raises
       THEN /\ tasks' = [tasks EXCEPT ![task_id].status = "failed",
                                      ![task_id].error = TRUE]
            /\ schedule_pc' = [schedule_pc EXCEPT ![task_id] = "done"]
            /\ sret' = SRet("schedule_task", TRUE)
            /\ UNCHANGED jobs
       ELSE /\ jobs' = [jobs EXCEPT
                           ![task_id] = IF tasks[task_id].scheduled_for = "default"
                                        THEN "future"
                                        ELSE RunDate(tasks[task_id].scheduled_for)]
            /\ schedule_pc' = [schedule_pc EXCEPT ![task_id] = "mark"]
            /\ UNCHANGED <<tasks, sret>>
    /\ UNCHANGED scheduler_running

\* schedule_task, lines 145-146 and 153: after add_job returned
MarkScheduled(task_id) ==
    /\ Known(task_id)
    /\ schedule_pc[task_id] = "mark"
    /\ tasks' = [tasks EXCEPT ![task_id].status = "scheduled"]
    /\ schedule_pc' = [schedule_pc EXCEPT ![task_id] = "done"]
    /\ sret' = SRet("schedule_task", TRUE)
    /\ UNCHANGED <<jobs, scheduler_running>>

\* start
Start ==
    /\ ~scheduler_running
    /\ scheduler_running' = TRUE
    /\ sret' = SRet("start", TRUE)
    /\ UNCHANGED <<tasks, jobs, schedule_pc>>

\* the clock reaches run_date, then passes it by more than the grace time
Elapse(task_id) ==
    /\ Known(task_id)
    /\ jobs[task_id] \in {"future", "due"}
    /\ jobs' = [jobs EXCEPT ![task_id] = IF @ = "future" THEN "due" ELSE "late"]
    /\ UNCHANGED <<tasks, schedule_pc, scheduler_running, sret>>

\* the scheduler thread: a job whose run_date is reached leaves the store
\* (a DateTrigger has no next fire time), run if in time, dropped if missed
ProcessJobs(task_id) ==
    /\ scheduler_running
    /\ Known(task_id)
    /\ jobs[task_id] \in {"due", "late"}
    /\ jobs' = [jobs EXCEPT ![task_id] = IF @ = "due" THEN "submitted" ELSE "none"]
    /\ UNCHANGED <<tasks, schedule_pc, scheduler_running, sret>>

\* _execute_task, lines 157-163
ExecuteStart(task_id) ==
    /\ Known(task_id)
    /\ jobs[task_id] = "submitted"
    /\ jobs' = [jobs EXCEPT ![task_id] = "executing"]
    /\ tasks' = [tasks EXCEPT ![task_id].status = "running",
                              ![task_id].started_at = TRUE]
    /\ UNCHANGED <<schedule_pc, scheduler_running, sret>>

\* _execute_file_analysis, lines 201-202
HandlerRaises(task_info) ==
    task_info.task_type = "file_analysis" /\ ~task_info.has_file

\* the calls of the worker a handler makes, in order; the field invoked of a
\* task keeps them (a history of the execution, not a key of the dict)
\* a handler that calls analyze_file whatever the parameters hold
ExecuteFileAnalysis_Unchecked(task_info) == <<"analyze_file">>

ExecuteFileAnalysis(task_info) ==
    IF HandlerRaises(task_info) THEN <<>> ELSE <<"analyze_file">>

\* _execute_audit_report, _execute_tax_calculation, _execute_consultation and
\* _execute_custom_task each end with one agent.chat(...)
ExecuteChat(task_info) == <<"chat">>

\* _execute_task, lines 171-180: the if/elif chain over task_type
Dispatch(task_info) ==
    IF task_info.task_type = "file_analysis" THEN ExecuteFileAnalysis(task_info)
    ELSE IF task_info.task_type = "audit_report" THEN ExecuteChat(task_info)
    ELSE IF task_info.task_type = "tax_calculation" THEN ExecuteChat(task_info)
    ELSE IF task_info.task_type = "consultation" THEN ExecuteChat(task_info)
    ELSE ExecuteChat(task_info)

\* an exception of the handler that escapes _execute_task: status untouched
ExecuteFinish_Uncaught(task_id, agent_raises) ==
    /\ Known(task_id)
    /\ jobs[task_id] = "executing"
    /\ jobs' = [jobs EXCEPT ![task_id] = "none"]
    /\ tasks' = IF agent_raises \/ HandlerRaises(tasks[task_id])
                THEN tasks
                ELSE [tasks EXCEPT ![task_id].status = "completed",
                                   ![task_id].result = TRUE]
    /\ UNCHANGED <<schedule_pc, scheduler_running, sret>>

\* a failed job put back in the executor's queue
ExecuteFinish_Retried(task_id, agent_raises) ==
    /\ Known(task_id)
    /\ jobs[task_id] = "executing"
    /\ jobs' = [jobs EXCEPT ![task_id] =
                   IF agent_raises \/ HandlerRaises(tasks[task_id])
                   THEN "submitted" ELSE "none"]
    /\ tasks' = IF agent_raises \/ HandlerRaises(tasks[task_id])
                THEN [tasks EXCEPT ![task_id].status = "failed",
                                   ![task_id].error = TRUE]
                ELSE [tasks EXCEPT ![task_id].status = "completed",
                                   ![task_id].result = TRUE]
    /\ UNCHANGED <<schedule_pc, scheduler_running, sret>>

\* _execute_task, lines 165-193; agent_raises: the call of the worker raises
ExecuteFinish(task_id, agent_raises) ==
    /\ Known(task_id)
    /\ jobs[task_id] = "executing"
    /\ jobs' = [jobs EXCEPT ![task_id] = "none"]
    /\ tasks' = IF agent_raises \/ HandlerRaises(tasks[task_id])
                THEN [tasks EXCEPT ![task_id].status = "failed",
                                   ![task_id].error = TRUE,
                                   ![task_id].invoked = @ \o Dispatch(tasks[task_id])]
                ELSE [tasks EXCEPT ![task_id].status = "completed",
                                   ![task_id].result = TRUE,
                                   ![task_id].invoked = @ \o Dispatch(tasks[task_id])]
    /\ UNCHANGED <<schedule_pc, scheduler_running, sret>>

\* a cancel_task that leaves the job in the store
CancelTask_KeepsJob(task_id) ==
    /\ IF Known(task_id) /\ tasks[task_id].status = "scheduled" /\ InStore(task_id)
       THEN /\ tasks' = [tasks EXCEPT ![task_id].status = "cancelled",
                                      ![task_id].cancelled_at = TRUE]
            /\ sret' = SRet("cancel_task", TRUE)
            /\ UNCHANGED jobs
       ELSE /\ sret' = SRet("cancel_task", FALSE)
            /\ UNCHANGED <<tasks, jobs>>
    /\ UNCHANGED <<schedule_pc, scheduler_running>>

\* a cancel_task that drops the record of the task it cancels
CancelTask_Forgets(task_id) ==
    /\ IF Known(task_id) /\ tasks[task_id].status = "scheduled" /\ InStore(task_id)
       THEN /\ jobs' = SubSeq(jobs, 1, task_id - 1)
            /\ tasks' = SubSeq(tasks, 1, task_id - 1)
            /\ sret' = SRet("cancel_task", TRUE)
       ELSE /\ sret' = SRet("cancel_task", FALSE)
            /\ UNCHANGED <<tasks, jobs>>
    /\ UNCHANGED <<schedule_pc, scheduler_running>>

\* cancel_task; remove_job raises JobLookupError when the job is not in the
\* store, and the except clause returns False
CancelTask(task_id) ==
    /\ IF Known(task_id) /\ tasks[task_id].status = "scheduled" /\ InStore(task_id)
       THEN /\ jobs' = [jobs EXCEPT ![task_id] = "none"]
            /\ tasks' = [tasks EXCEPT ![task_id].status = "cancelled",
                                      ![task_id].cancelled_at = TRUE]
            /\ sret' = SRet("cancel_task", TRUE)
       ELSE /\ sret' = SRet("cancel_task", FALSE)
            /\ UNCHANGED <<tasks, jobs>>
    /\ UNCHANGED <<schedule_pc, scheduler_running>>

\* a reschedule_task that removes the old job before it parses the new time
RescheduleTask_RemovesFirst(task_id, new_schedule_time, add_job_raises) ==
    /\ IF /\ Known(task_id)
          /\ tasks[task_id].status = "scheduled"
          /\ InStore(task_id)
       THEN IF add_job_raises \/ new_schedule_time = "bad"
            THEN /\ jobs' = [jobs EXCEPT ![task_id] = "none"]
                 /\ sret' = SRet("reschedule_task", FALSE)
                 /\ UNCHANGED tasks
            ELSE /\ jobs' = [jobs EXCEPT ![task_id] = RunDate(new_schedule_time)]
                 /\ tasks' = [tasks EXCEPT
                                ![task_id].scheduled_for = new_schedule_time,
                                ![task_id].rescheduled_at = TRUE]
                 /\ sret' = SRet("reschedule_task", TRUE)
       ELSE /\ sret' = SRet("reschedule_task", FALSE)
            /\ UNCHANGED <<tasks, jobs>>
    /\ UNCHANGED <<schedule_pc, scheduler_running>>

\* a reschedule_task that checks neither the status nor the job store, and
\* registers a timer for any task it knows
RescheduleTask_AnyStatus(task_id, new_schedule_time, add_job_raises) ==
    /\ IF Known(task_id) /\ new_schedule_time # "bad"
       THEN /\ jobs' = [jobs EXCEPT ![task_id] = RunDate(new_schedule_time)]
            /\ tasks' = [tasks EXCEPT
                           ![task_id].scheduled_for = new_schedule_time,
                           ![task_id].rescheduled_at = TRUE]
            /\ sret' = SRet("reschedule_task", TRUE)
       ELSE /\ sret' = SRet("reschedule_task", FALSE)
            /\ UNCHANGED <<tasks, jobs>>
    /\ UNCHANGED <<schedule_pc, scheduler_running>>

\* reschedule_task; add_job_raises: the add_job of line 310 raises
RescheduleTask(task_id, new_schedule_time, add_job_raises) ==
    /\ IF /\ Known(task_id)
          /\ tasks[task_id].status = "scheduled"
          /\ new_schedule_time # "bad"
          /\ InStore(task_id)
       THEN IF add_job_raises
            THEN /\ jobs' = [jobs EXCEPT ![task_id] = "none"]
                 /\ sret' = SRet("reschedule_task", FALSE)
                 /\ UNCHANGED tasks
            ELSE /\ jobs' = [jobs EXCEPT ![task_id] = RunDate(new_schedule_time)]
                 /\ tasks' = [tasks EXCEPT
                                ![task_id].scheduled_for = new_schedule_time,
                                ![task_id].rescheduled_at = TRUE]
                 /\ sret' = SRet("reschedule_task", TRUE)
       ELSE /\ sret' = SRet("reschedule_task", FALSE)
            /\ UNCHANGED <<tasks, jobs>>
    /\ UNCHANGED <<schedule_pc, scheduler_running>>

\* whether the add_job of reschedule_task raises, where the call reaches it
AddJobOutcomes(task_id, new_schedule_time) ==
    IF /\ Known(task_id)
       /\ tasks[task_id].status = "scheduled"
       /\ new_schedule_time # "bad"
       /\ InStore(task_id)
    THEN BOOLEAN
    ELSE {FALSE}

\* a step of the scheduler; the dispatcher is left alone
Sched(A) == A /\ UNCHANGED <<lbVars, calls, picked, threadVars, cronVars>>

NextSched ==
    \/ \E task_type \in TaskTypes, schedule_time \in ScheduleTimes :
       \E has_file \in IF task_type = "file_analysis" THEN BOOLEAN ELSE {FALSE} :
          Sched(ScheduleTask(task_type, has_file, schedule_time))
    \/ \E task_id \in 1..MaxTasks, raises \in BOOLEAN :
          Sched(AddJob(task_id, raises))
    \/ \E task_id \in 1..MaxTasks : Sched(MarkScheduled(task_id))
    \/ Sched(Start)
    \/ \E task_id \in 1..MaxTasks : Sched(Elapse(task_id))
    \/ \E task_id \in 1..MaxTasks : Sched(ProcessJobs(task_id))
    \/ \E task_id \in 1..MaxTasks : Sched(ExecuteStart(task_id))
    \/ \E task_id \in 1..MaxTasks, agent_raises \in BOOLEAN :
          Sched(ExecuteFinish(task_id, agent_raises))
    \/ \E task_id \in 1..(MaxTasks + 1) : Sched(CancelTask(task_id))
    \/ \E task_id \in 1..(MaxTasks + 1),
          new_schedule_time \in NewScheduleTimes :
       \E add_job_raises \in AddJobOutcomes(task_id, new_schedule_time) :
          Sched(RescheduleTask(task_id, new_schedule_time, add_job_raises))

SpecSched == Init /\ [][NextSched]_vars

(***************************************************************************)
(* Claims about the scheduler                                               *)
(***************************************************************************)
LegalStatusChanges ==
    {<<"scheduled", "running">>, <<"running", "completed">>,
     <<"running", "failed">>, <<"scheduled", "cancelled">>}

\* C10: every status change of a job is scheduled->running,
\* running->completed, running->failed or scheduled->cancelled (so a
\* completed, failed or cancelled job never changes again), and a job is
\* never failed without having been running.
C10_JobStateMachine ==
    /\ [][\A task_id \in 1..Len(tasks) :
             tasks'[task_id].status # tasks[task_id].status =>
                 <<tasks[task_id].status, tasks'[task_id].status>>
                     \in LegalStatusChanges]_vars
    /\ [](\A task_id \in 1..Len(tasks) :
             tasks[task_id].status = "failed" => tasks[task_id].started_at)

\* C11: cancel_task returns True exactly when the job exists and its status
\* is 'scheduled' at the call.
C11_CancelIffScheduled ==
    [][\A task_id \in 1..(MaxTasks + 1) :
          CancelTask(task_id) =>
              (sret'.ok <=> (Known(task_id)
                             /\ tasks[task_id].status = "scheduled"))]_vars

\* C12: when cancel_task returns True the job is 'cancelled' and its timer is
\* gone, and from then on the job is never handed to the executor, never
\* started and never 'running', however the firing loop interleaves.
C12_CancelledNeverRuns ==
    /\ [][\A task_id \in 1..MaxTasks :
             (CancelTask(task_id) /\ sret'.ok) =>
                 /\ tasks'[task_id].status = "cancelled"
                 /\ jobs'[task_id] = "none"]_vars
    /\ [](\A task_id \in 1..Len(tasks) :
             tasks[task_id].cancelled_at =>
                 /\ jobs[task_id] = "none"
                 /\ tasks[task_id].status # "running"
                 /\ ~tasks[task_id].started_at)

\* a job whose run_date was the current time, cancelled with the scheduler
\* started
C12_Witness ==
    \E task_id \in 1..Len(tasks) :
        /\ tasks[task_id].cancelled_at
        /\ tasks[task_id].status = "cancelled"
        /\ tasks[task_id].scheduled_for = "now"
        /\ scheduler_running
        /\ sret = SRet("cancel_task", TRUE)

\* C13: reschedule_task returns True exactly when the job exists, its status
\* is 'scheduled' and the new time parses; then the timer is at the new time,
\* scheduled_for is the new time and the status is still 'scheduled'.
C13_RescheduleIff ==
    [][\A task_id \in 1..(MaxTasks + 1), new_schedule_time \in NewScheduleTimes,
         add_job_raises \in BOOLEAN :
          RescheduleTask(task_id, new_schedule_time, add_job_raises) =>
              /\ sret'.ok <=> /\ Known(task_id)
                              /\ tasks[task_id].status = "scheduled"
                              /\ new_schedule_time # "bad"
              /\ sret'.ok =>
                    /\ jobs'[task_id] = RunDate(new_schedule_time)
                    /\ tasks'[task_id].scheduled_for = new_schedule_time
                    /\ tasks'[task_id].status = "scheduled"]_vars

\* the executor thread runs _execute_task to its end: the worker call returns
\* or raises
SpecSchedFair ==
    /\ Init
    /\ [][NextSched]_vars
    /\ WF_vars(\E task_id \in 1..MaxTasks, agent_raises \in BOOLEAN :
                  Sched(ExecuteFinish(task_id, agent_raises)))

\* C14: every job whose status becomes 'running' eventually has status
\* 'completed' or 'failed', given that the worker call returns or raises.
C14_RunningEnds ==
    \A task_id \in 1..MaxTasks :
        (Known(task_id) /\ tasks[task_id].status = "running")
            ~> (Known(task_id)
                /\ tasks[task_id].status \in {"completed", "failed"})

\* a file_analysis job without its file parameters ran and ended 'failed'
C14_Witness ==
    \E task_id \in 1..Len(tasks) :
        /\ tasks[task_id].started_at
        /\ HandlerRaises(tasks[task_id])
        /\ tasks[task_id].status = "failed"

\* C15: an execution whose worker call succeeds ends 'completed' with the
\* result stored and no error, one that fails ends 'failed' with the error
\* stored and no result, and a job that has run is never run again.
C15_ExecutionOutcome ==
    /\ [][\A task_id \in 1..MaxTasks, agent_raises \in BOOLEAN :
             ExecuteFinish(task_id, agent_raises) =>
                 IF agent_raises \/ HandlerRaises(tasks[task_id])
                 THEN /\ tasks'[task_id].status = "failed"
                      /\ tasks'[task_id].error
                      /\ ~tasks'[task_id].result
                 ELSE /\ tasks'[task_id].status = "completed"
                      /\ tasks'[task_id].result
                      /\ ~tasks'[task_id].error]_vars
    /\ [][\A task_id \in 1..Len(tasks) :
             tasks[task_id].started_at =>
                 /\ jobs'[task_id] \notin {"future", "due", "late", "submitted"}
                 /\ (jobs[task_id] = "none" => jobs'[task_id] = "none")]_vars

\* a job whose worker raised has ended 'failed' and has no timer
C15_Witness ==
    \E task_id \in 1..Len(tasks) :
        /\ tasks[task_id].status = "failed"
        /\ tasks[task_id].started_at
        /\ tasks[task_id].error
        /\ ~HandlerRaises(tasks[task_id])
        /\ jobs[task_id] = "none"

\* C16: schedule_task always records the job as 'scheduled' with a one-shot
\* timer, at one minute from now when schedule_time is absent or unparsable
\* and at the parsed time otherwise, and returns a fresh id.
C16_ScheduleRegisters ==
    /\ [][\A task_type \in TaskTypes, has_file \in BOOLEAN,
            schedule_time \in ScheduleTimes :
             ScheduleTask(task_type, has_file, schedule_time) =>
                 /\ Len(tasks') = Len(tasks) + 1
                 /\ tasks'[Len(tasks')].scheduled_for =
                       IF schedule_time \in {"none", "bad"} THEN "default"
                       ELSE schedule_time]_vars
    /\ [][\A task_id \in 1..MaxTasks, raises \in BOOLEAN :
             AddJob(task_id, raises) =>
                 /\ tasks'[task_id].status = "scheduled"
                 /\ jobs'[task_id] =
                       CASE tasks[task_id].scheduled_for = "past" -> "late"
                         [] tasks[task_id].scheduled_for = "now" -> "due"
                         [] OTHER -> "future"]_vars

\* C17: the execution of a fired job goes through get_agent of the
\* LoadBalancer: one instance of a pool has one more active connection and
\* one more request after it.
C17_ExecutionAcquires ==
    [][\A task_id \in 1..MaxTasks, agent_raises \in BOOLEAN :
          ExecuteFinish(task_id, agent_raises) =>
              \E t \in AgentTypes : \E i \in 1..Len(agent_pools[t]) :
                  /\ Len(agent_pools'[t]) >= i
                  /\ agent_pools'[t][i].active_connections
                        = agent_pools[t][i].active_connections + 1
                  /\ agent_pools'[t][i].total_requests
                        = agent_pools[t][i].total_requests + 1]_vars

\* C18: cancel_task and reschedule_task, for an unknown id or a job that is
\* not 'scheduled', and reschedule_task for an unparsable time, return False
\* and leave the tasks and the timers as they were.
C18_MisuseIsNoOp ==
    [][\A task_id \in 1..(MaxTasks + 1) :
          /\ (/\ CancelTask(task_id)
              /\ ~(Known(task_id) /\ tasks[task_id].status = "scheduled"))
                => (~sret'.ok /\ UNCHANGED <<tasks, jobs>>)
          /\ \A new_schedule_time \in NewScheduleTimes, add_job_raises \in BOOLEAN :
                (/\ RescheduleTask(task_id, new_schedule_time, add_job_raises)
                 /\ \/ ~(Known(task_id) /\ tasks[task_id].status = "scheduled")
                    \/ new_schedule_time = "bad")
                  => (~sret'.ok /\ UNCHANGED <<tasks, jobs>>)]_vars

\* reschedule_task was refused on a job already cancelled
C18_Witness ==
    \E task_id \in 1..Len(tasks) :
        /\ tasks[task_id].status = "cancelled"
        /\ sret = SRet("reschedule_task", FALSE)

(***************************************************************************)
(* get_agent and release_agent in turn, on a pool that can also lose        *)
(* instances                                                                *)
(***************************************************************************)
MaxReleaseCalls == 5

ReleasedType == "Dabby Consultant"

ReleaseCall(A) == Within(MaxReleaseCalls, A)

NextRelease ==
    \/ ReleaseCall(GetAgent(ReleasedType))
    \/ \E r \in ResponseTimes : ReleaseCall(ReleaseAgent(ReleasedType, r))
    \/ \E id \in 0..Len(agent_pools[ReleasedType]) :
          ReleaseCall(RemoveAgentInstance(ReleasedType, id))

SpecRelease == Init /\ [][NextRelease]_vars

\* C19: release_agent changes one instance only, one with the greatest
\* last_used of its type: active_connections goes down by 1 but not below 0,
\* total_response_time goes up by response_time; and active_connections is
\* never negative.
C19_ReleaseOneInstance ==
    /\ [][\A t \in AgentTypes, r \in ResponseTimes :
             (Called("release_agent") /\ ret'.t = t /\ ret'.arg = r) =>
                 LET before == agent_pools[t]
                     after == agent_pools'[t]
                 IN  /\ \A u \in AgentTypes \ {t} : agent_pools'[u] = agent_pools[u]
                     /\ Len(after) = Len(before)
                     /\ \/ before = <<>>
                        \/ \E i \in 1..Len(before) :
                             /\ \A j \in 1..Len(before) :
                                   before[j].last_used <= before[i].last_used
                             /\ after[i] =
                                   [before[i] EXCEPT
                                      !.active_connections =
                                          IF before[i].active_connections >= 1
                                          THEN before[i].active_connections - 1
                                          ELSE 0,
                                      !.total_response_time = @ + r]
                             /\ \A j \in 1..Len(before) :
                                   j # i => after[j] = before[j]]_vars
    /\ [](\A t \in AgentTypes : \A i \in 1..Len(agent_pools[t]) :
             agent_pools[t][i].active_connections >= 0)

\* an instance acquired once and released twice: the second release found
\* active_connections at 0
C19_Witness ==
    /\ ret.op = "release_agent"
    /\ \E i \in 1..Len(agent_pools[ReleasedType]) :
          /\ agent_pools[ReleasedType][i].total_requests = 1
          /\ agent_pools[ReleasedType][i].total_response_time = 2
          /\ agent_pools[ReleasedType][i].active_connections = 0

(***************************************************************************)
(* Health checks of instances loaded up to and over the connection ceiling  *)
(***************************************************************************)
MaxHealthPool == 2
MaxHealthCalls == 2

\* active_connections as unreleased get_agent calls left them: none, at the
\* ceiling max_connections_per_agent, one over it
HealthConns == {0, 10, 11}

InitHealth ==
    \E n \in 1..MaxHealthPool : \E conns \in [1..n -> HealthConns] :
        /\ algorithm = ROUND_ROBIN
        /\ agent_pools = [t \in AgentTypes |->
              IF t = LoadedType THEN LoadedPool(t, conns) ELSE InitialPool(t)]
        /\ round_robin_counters = [t \in AgentTypes |-> 0]
        /\ agent_weights = DefaultWeights
        /\ created = [t \in AgentTypes |->
              IF t = LoadedType THEN n ELSE Len(InitialPool(t))]
        /\ now = SumSeq(conns)
        /\ hc_pc = "sleep"
        /\ ret = NoRet
        /\ calls = 0
        /\ picked = <<>>
        /\ TaskSchedulerInit
        /\ ThreadsIdle

NextHealth ==
    \/ Within(MaxHealthCalls, GetAgent(LoadedType))
    \/ \E probe \in ProbeChoices(agent_pools) :
          Within(MaxHealthCalls, HealthCheckPass(probe))
    \/ Within(MaxHealthCalls, AutoScale)

SpecHealth == InitHealth /\ [][NextHealth]_vars

\* C20: after a health check an instance is 'unhealthy' if its probe raised
\* or was slower than the ceiling, else 'overloaded' if its
\* active_connections exceeds max_connections_per_agent, else 'healthy'; so
\* a slow probe gives 'unhealthy' also over the connection ceiling.
C20_HealthStatus ==
    [][\A probe \in ProbeChoices(agent_pools) :
          HealthCheckPass(probe) =>
              \A t \in AgentTypes : \A i \in 1..Len(agent_pools[t]) :
                  agent_pools'[t][i].health_status =
                      IF probe[<<t, i>>] \in {"raise", "slow"} THEN "unhealthy"
                      ELSE IF agent_pools[t][i].active_connections
                                > max_connections_per_agent
                           THEN "overloaded"
                           ELSE "healthy"]_vars

(***************************************************************************)
(* The periodic jobs: job_defaults of the BackgroundScheduler              *)
(***************************************************************************)

\* fire times of one periodic job that may pile up before it is processed
MaxMissed == 2

\* job_defaults['coalesce'] and job_defaults['max_instances']
coalesce == FALSE
max_instances == 3

\* the run times one processing hands to the executor: with coalescing only
\* the latest of the fire times passed, without it every one of them
RunTimes(due) == IF coalesce THEN 1 ELSE due

\* the executor takes a job as long as it runs fewer than max_instances of it
Submittable_Inclusive(running) == running <= max_instances
Submittable(running) == running < max_instances

\* a fire time of the cron trigger passes
CronFire(id) ==
    /\ scheduler_running
    /\ cron_due[id] < MaxMissed
    /\ cron_due' = [cron_due EXCEPT ![id] = @ + 1]
    /\ UNCHANGED <<cron_instances, cron_submitted>>

\* the scheduler thread processes the job: it submits the run times passed
\* to the executor, or skips them when the executor refuses the job
CronProcess(id) ==
    /\ scheduler_running
    /\ cron_due[id] > 0
    /\ cron_due' = [cron_due EXCEPT ![id] = 0]
    /\ IF Submittable(cron_instances[id])
       THEN /\ cron_instances' = [cron_instances EXCEPT ![id] = @ + 1]
            /\ cron_submitted' = [cron_submitted EXCEPT ![id] = RunTimes(cron_due[id])]
       ELSE /\ cron_submitted' = [cron_submitted EXCEPT ![id] = 0]
            /\ UNCHANGED cron_instances

\* an execution of the job ends
CronFinish(id) ==
    /\ cron_instances[id] > 0
    /\ cron_instances' = [cron_instances EXCEPT ![id] = @ - 1]
    /\ UNCHANGED <<cron_due, cron_submitted>>

\* a step of a periodic job; tasks and the dispatcher are left alone
Cron(A) ==
    /\ A
    /\ UNCHANGED <<tasks, jobs, schedule_pc, scheduler_running, sret,
                   lbVars, calls, picked, threadVars>>

NextCron ==
    \/ Sched(Start)
    \/ \E id \in CronJobs : Cron(CronFire(id))
    \/ \E id \in CronJobs : Cron(CronProcess(id))
    \/ \E id \in CronJobs : Cron(CronFinish(id))

SpecCron == Init /\ [][NextCron]_vars

\* C21: at most 3 executions of the same job identifier are in progress at
\* once, and missed fires are not coalesced: a processing that starts an
\* execution hands it every fire time that passed, not only the latest.
C21_ThreeAtOnceNoCoalescing ==
    /\ [](\A id \in CronJobs : cron_instances[id] <= 3)
    /\ [][\A id \in CronJobs :
            CronProcess(id) /\ cron_instances'[id] = cron_instances[id] + 1
                => cron_submitted'[id] = cron_due[id]]_vars

\* three executions of one periodic job run, and a processing has handed over
\* two fire times at once
C21_Witness ==
    \E id \in CronJobs :
        /\ cron_instances[id] = 3
        /\ cron_submitted[id] = 2

\* get_task_status: the record stored under the id, or nothing (None)
GetTaskStatus(task_id) ==
    IF Known(task_id) THEN {tasks[task_id]} ELSE {}

\* C22: the Job map only grows: no step of schedule, execute, cancel or
\* reschedule removes a record, so get_task_status finds every id that
\* schedule_task has returned, with the task it was created for, ever after.
C22_JobMapOnlyGrows ==
    [][\A task_id \in 1..Len(tasks) :
          /\ GetTaskStatus(task_id)' # {}
          /\ \A kept \in GetTaskStatus(task_id)' :
                /\ kept.task_type = tasks[task_id].task_type
                /\ kept.has_file = tasks[task_id].has_file]_vars

\* a cancelled task, its job gone from the store, is still in the map
C22_Witness ==
    \E task_id \in 1..MaxTasks :
        /\ GetTaskStatus(task_id) # {}
        /\ \A kept \in GetTaskStatus(task_id) :
              kept.status = "cancelled" /\ ~InStore(task_id)

(***************************************************************************)
(* Response-time selection on pools that have served requests              *)
(***************************************************************************)
MaxRespPool == 3
MaxRespCalls == 3

\* <<total_requests, total_response_time>> of an instance, all released
RespLoads == {<<0, 0>>, <<1, 1>>, <<2, 2>>}

RespType == "Dabby Consultant"

\* instance i has served loads[i][1] requests in loads[i][2] seconds
RespondedPool(t, loads, health) ==
    [i \in 1..Len(loads) |->
        [AgentInstance(i, i - 1, DefaultWeights[t]) EXCEPT
            !.total_requests = loads[i][1],
            !.total_response_time = loads[i][2],
            !.last_used = IF loads[i][1] = 0 THEN 0 ELSE i,
            !.health_status = health[i]]]

InitResponse ==
    \E n \in 1..MaxRespPool :
    \E loads \in [1..n -> RespLoads], down \in SUBSET (1..n) :
    \E health \in {[i \in 1..n |-> IF i \in down THEN "unhealthy" ELSE "healthy"]} :
        /\ algorithm = RESPONSE_TIME
        /\ agent_pools = [t \in AgentTypes |->
              IF t = RespType THEN RespondedPool(t, loads, health)
              ELSE InitialPool(t)]
        /\ round_robin_counters = [t \in AgentTypes |-> 0]
        /\ agent_weights = DefaultWeights
        /\ created = [t \in AgentTypes |->
              IF t = RespType THEN n ELSE Len(InitialPool(t))]
        /\ now = n
        /\ hc_pc = "sleep"
        /\ ret = NoRet
        /\ calls = 0
        /\ picked = <<>>
        /\ TaskSchedulerInit
        /\ ThreadsIdle

ResponseCall(A) == Within(MaxRespCalls, A)
NextResponse ==
    \/ ResponseCall(GetAgent(RespType))
    \/ \E r \in ResponseTimes : ResponseCall(ReleaseAgent(RespType, r))

SpecResponse == InitResponse /\ [][NextResponse]_vars

\* C23: under the response-time algorithm get_agent selects the healthy
\* instance with the least total_response_time / total_requests, an instance
\* with no request counting as 0.0 and so passing before every instance with
\* a positive average; ties go to the earliest instance in pool order.
C23_ResponseTime ==
    [][(Called("get_agent") /\ algorithm = RESPONSE_TIME) =>
          LET before == agent_pools[ret'.t]
              num(x) == IF x.total_requests = 0 THEN 0 ELSE x.total_response_time
              den(x) == IF x.total_requests = 0 THEN 1 ELSE x.total_requests
              less(x, y) == num(x) * den(y) < num(y) * den(x)
          IN  HealthyOf(before) # {} =>
                \E i \in HealthyOf(before) :
                  /\ before[i].uid = ret'.uid
                  /\ \A j \in HealthyOf(before) : ~less(before[j], before[i])
                  /\ \A j \in HealthyOf(before) :
                        j < i => less(before[i], before[j])
                  /\ (\E j \in HealthyOf(before) : before[j].total_requests = 0)
                        => num(before[i]) = 0]_vars

\* the response-time algorithm has passed over an earlier healthy instance
\* with a positive average and chosen the first of two that never served
C23_Witness ==
    /\ algorithm = RESPONSE_TIME
    /\ ret.op = "get_agent"
    /\ LET pool == agent_pools[ret.t]
       IN  \E h, i, j \in 1..Len(pool) :
             /\ h < i /\ i < j
             /\ pool[h].health_status = "healthy"
             /\ pool[h].total_response_time > 0
             /\ pool[i].uid = ret.uid
             /\ pool[i].total_requests = 1
             /\ pool[j].health_status = "healthy"
             /\ pool[j].total_requests = 0

\* C24: every instance in every pool has weight >= 1, so that the total
\* weight weighted round robin divides by is positive.
C24_WeightsPositive ==
    \A t \in AgentTypes :
        /\ \A i \in 1..Len(agent_pools[t]) : agent_pools[t][i].weight >= 1
        /\ agent_pools[t] # <<>> => SumWeight(agent_pools[t]) > 0

\* C25: when scale_down(type, n) removes instances (n smaller than the pool
\* size), it removes exactly n instances, and every instance removed has
\* active_connections at most that of every instance that remains.
C25_ScaleDownRemovesIdlest ==
    [][\A t \in AgentTypes :
          (Called("scale_down") /\ ret'.t = t /\ ret'.arg < Len(agent_pools[t])) =>
              LET before == agent_pools[t]
                  after == agent_pools'[t]
                  kept == {after[i].uid : i \in 1..Len(after)}
                  removed == {i \in 1..Len(before) : before[i].uid \notin kept}
              IN  /\ Cardinality(removed) = ret'.arg
                  /\ \A i \in removed, j \in 1..Len(before) :
                        j \notin removed =>
                            before[i].active_connections
                                <= before[j].active_connections]_vars

\* C26: in one auto_scale pass each pool changes size by at most 1: it grows
\* by exactly 1 iff the mean active_connections over all its instances is
\* above 70% of the ceiling of 10 and its size is below 5, shrinks by exactly
\* 1 iff the mean is below 30% of the ceiling and its size is above 1, and
\* keeps its size otherwise.
C26_AutoScaleByOne ==
    [][Called("auto_scale") =>
          \A t \in AgentTypes :
              LET n == Len(agent_pools[t])
                  after == Len(agent_pools'[t])
                  total == SumConnections(agent_pools[t])
                  grows == 10 * total > 70 * n /\ n < 5
                  shrinks == 10 * total < 30 * n /\ n > 1
              IN  /\ after = n + 1 <=> grows
                  /\ after = n - 1 <=> shrinks
                  /\ after = n <=> ~grows /\ ~shrinks]_vars

\* auto_scale has added an instance to a pool whose mean was above 7
C26_Witness ==
    /\ ret.op = "auto_scale"
    /\ LET pool == agent_pools[LoadedType]
           n == Len(pool)
       IN  /\ n >= 3
           /\ pool[n].uid = created[LoadedType]
           /\ pool[n].weight = 1
           /\ SumConnections(pool) > 7 * (n - 1)

\* auto_scale has left alone a pool whose mean is exactly 7
C26_WitnessAtThreshold ==
    /\ ret.op = "auto_scale"
    /\ LET pool == agent_pools[LoadedType]
       IN  /\ Len(pool) = 2
           /\ created[LoadedType] = 2
           /\ SumConnections(pool) = 14

\* C27: the per-type cursor stays bounded: after every round-robin get_agent
\* it lies in [0, number of healthy instances), and after every weighted
\* round-robin get_agent it lies in [0, total weight of the healthy instances).
C27_CursorBounded ==
    [][(Called("get_agent") /\ ~ret'.raised) =>
          LET pool == agent_pools'[ret'.t]
              cursor == round_robin_counters'[ret'.t]
              healthy == [k \in 1..Len(HealthyIdx(pool)) |-> pool[HealthyIdx(pool)[k]]]
          IN  /\ algorithm = ROUND_ROBIN =>
                    cursor >= 0 /\ cursor < Len(healthy)
              /\ algorithm = WEIGHTED_ROUND_ROBIN =>
                    cursor >= 0 /\ cursor < SumWeight(healthy)]_vars

\* the round-robin half of C27 alone
C27_RoundRobinCursorBounded ==
    [][(Called("get_agent") /\ ~ret'.raised /\ algorithm = ROUND_ROBIN) =>
          LET pool == agent_pools'[ret'.t]
              cursor == round_robin_counters'[ret'.t]
          IN  cursor >= 0 /\ cursor < Len(HealthyIdx(pool))]_vars

\* C28: a successful get_agent increases active_connections and
\* total_requests by exactly 1 on the returned instance and on no other; it
\* leaves weight and health_status of every instance, and every field of
\* every other instance and of every other type's pool, unchanged.
C28_AcquireFrame ==
    [][(Called("get_agent") /\ ~ret'.raised) =>
          LET t == ret'.t
              before == agent_pools[t]
              after == agent_pools'[t]
              new == AgentInstance(ret'.uid, 0, 0)
              old(i) == IF i <= Len(before) THEN before[i] ELSE new
          IN  /\ \E i \in 1..Len(after) :
                    /\ after[i].uid = ret'.uid
                    /\ after[i].active_connections = old(i).active_connections + 1
                    /\ after[i].total_requests = old(i).total_requests + 1
                    /\ after[i].total_response_time = old(i).total_response_time
                    /\ \A j \in 1..Len(before) : j # i => after[j] = before[j]
              /\ Len(after) >= Len(before)
              /\ \A j \in 1..Len(before) :
                    /\ after[j].weight = before[j].weight
                    /\ after[j].health_status = before[j].health_status
              /\ \A u \in AgentTypes \ {t} :
                    agent_pools'[u] = agent_pools[u]]_vars

\* get_agent has returned an instance for the second time, next to an
\* instance that is not healthy and one that was never used
C28_Witness ==
    /\ ret.op = "get_agent"
    /\ ret.ok
    /\ LET pool == agent_pools[ret.t]
       IN  \E i, j, k \in 1..Len(pool) :
             /\ pool[i].uid = ret.uid
             /\ pool[i].total_requests = 2
             /\ pool[i].active_connections = 2
             /\ pool[j].health_status = "unhealthy"
             /\ pool[k].health_status = "healthy"
             /\ pool[k].total_requests = 0

\* C29: every write to a field of an instance in a pool, and every append to
\* or removal from a pool, happens while the lock is held, so that while a
\* thread holds the lock only that thread changes a pool; and no instance is
\* in a pool before its fields have their intended values: an instance that
\* add_agent_instance has appended carries the weight the call was given.
C29_WritesUnderLock ==
    /\ [][(lock # 0 /\ agent_pools' # agent_pools) => pc'[lock] # pc[lock]]_vars
    /\ [](\A th \in Threads :
            pc[th] = "weight" =>
                LET pool == agent_pools[frame[th].t]
                    i == PosOf(pool, frame[th].uid)
                IN  i # 0 => pool[i].weight = frame[th].weight)

(***************************************************************************)
(* get_agent on a pool that removals have emptied                          *)
(***************************************************************************)
MaxEmptyCalls == 3

EmptiedType == "Tax Agent"

\* LoadBalancer(algorithm): the algorithm is the constructor's argument
InitEmptied ==
    /\ algorithm \in LoadBalancingAlgorithm
    /\ agent_pools = [t \in AgentTypes |-> InitialPool(t)]
    /\ round_robin_counters = [t \in AgentTypes |-> 0]
    /\ agent_weights = DefaultWeights
    /\ created = [t \in AgentTypes |-> Len(InitialPool(t))]
    /\ now = 0
    /\ hc_pc = "sleep"
    /\ ret = NoRet
    /\ calls = 0
    /\ picked = <<>>
    /\ TaskSchedulerInit
    /\ ThreadsIdle

EmptiedCall(A) == Within(MaxEmptyCalls, A)
NextEmptied ==
    \/ EmptiedCall(GetAgent(EmptiedType))
    \/ \E id \in 0..Len(agent_pools[EmptiedType]) :
          EmptiedCall(RemoveAgentInstance(EmptiedType, id))
    \/ \E w \in Weights : EmptiedCall(SetAgentWeight(EmptiedType, w))

SpecEmptied == InitEmptied /\ [][NextEmptied]_vars

\* C30: get_agent on a type whose pool is empty creates exactly one instance,
\* whose weight is the configured weight of the type, and returns it with
\* active_connections = 1 and total_requests = 1.
C30_AcquireOnEmptyPool ==
    [][\A t \in AgentTypes :
          (Called("get_agent") /\ ret'.t = t /\ agent_pools[t] = <<>>) =>
              LET after == agent_pools'[t]
              IN  /\ ~ret'.raised
                  /\ Len(after) = 1
                  /\ after[1].uid = ret'.uid
                  /\ after[1].weight = agent_weights[t]
                  /\ after[1].active_connections = 1
                  /\ after[1].total_requests = 1]_vars

(***************************************************************************)
(* get_agent when AgentFactory.get_agent raises                            *)
(***************************************************************************)
MaxFactoryCalls == 4

FactoryType == "Tax Agent"

\* get_agent reaches _create_agent_instance: the type has no instance, or
\* none that is healthy
CreationNeeded(pool) == pool = <<>> \/ ~HasHealthy(pool)

\* a creation that appends the instance before the factory is asked
GetAgentCreateFails_HalfCreated(t) ==
    /\ CreationNeeded(agent_pools[t])
    /\ agent_pools' = [agent_pools EXCEPT ![t] =
          CreateAgentInstance(t, @, agent_weights, created[t] + 1)]
    /\ created' = [created EXCEPT ![t] = @ + 1]
    /\ ret' = Ret("get_agent", t, 0, TRUE, 0, FALSE)
    /\ UNCHANGED <<algorithm, round_robin_counters, agent_weights, now, hc_pc>>

\* get_agent, lines 100-110, when agent_factory.get_agent (81) raises: the
\* exception leaves _create_agent_instance before the AgentInstance is built
\* and leaves get_agent through `with self.lock`
GetAgentCreateFails(t) ==
    /\ CreationNeeded(agent_pools[t])
    /\ ret' = Ret("get_agent", t, 0, TRUE, 0, FALSE)
    /\ UNCHANGED <<algorithm, agent_pools, round_robin_counters, agent_weights,
                   created, now, hc_pc>>

FactoryCall(A) == Within(MaxFactoryCalls, A)
NextFactory ==
    \/ FactoryCall(GetAgent(FactoryType))
    \/ FactoryCall(GetAgentCreateFails(FactoryType))
    \/ \E id \in 0..Len(agent_pools[FactoryType]) :
          FactoryCall(RemoveAgentInstance(FactoryType, id))
    \/ \E probe \in UniformProbes(agent_pools) :
          FactoryCall(HealthCheckPass(probe))
    \/ FactoryCall(AutoScale)

SpecFactory == Init /\ [][NextFactory]_vars

\* C31: when the factory fails during get_agent (empty pool or no healthy
\* instance), the call raises, and the pools, the cursors and every metric of
\* every instance are as before the call, with the lock free.
C31_FailedCreateChangesNothing ==
    [][(Called("get_agent") /\ CreationNeeded(agent_pools[ret'.t])) =>
          \/ ~ret'.raised /\ ret'.ok
          \/ /\ ret'.raised
             /\ agent_pools' = agent_pools
             /\ round_robin_counters' = round_robin_counters
             /\ lock' = 0]_vars

\* get_agent has raised on a pool whose only instance is not healthy and
\* still has the connection an earlier call gave it
C31_Witness ==
    /\ ret.op = "get_agent"
    /\ ret.raised
    /\ LET pool == agent_pools[ret.t]
       IN  /\ Len(pool) = 1
           /\ pool[1].health_status = "unhealthy"
           /\ pool[1].active_connections = 1

\* C32: a failing probe never leaves the background loop: in a pass it only
\* sets the health_status of its instance (to 'unhealthy'), every other
\* instance is still checked in the same pass, auto_scale runs after every
\* pass, and after auto_scale the loop is at its next pass.
C32_ProbeFailureContained ==
    /\ [][\A probe \in ProbeChoices(agent_pools) :
            HealthCheckPass(probe) =>
                /\ hc_pc' = "scale"
                /\ \A t \in AgentTypes :
                      /\ Len(agent_pools'[t]) = Len(agent_pools[t])
                      /\ \A i \in 1..Len(agent_pools[t]) :
                            LET old == agent_pools[t][i]
                                new == agent_pools'[t][i]
                            IN  /\ new = [old EXCEPT !.health_status = new.health_status]
                                /\ probe[<<t, i>>] = "raise" =>
                                      new.health_status = "unhealthy"
                                /\ probe[<<t, i>>] = "ok" =>
                                      new.health_status =
                                          IF old.active_connections
                                                > max_connections_per_agent
                                          THEN "overloaded" ELSE "healthy"]_vars
    /\ [][(hc_pc = "scale" /\ hc_pc' # hc_pc) =>
              ret'.op = "auto_scale" /\ hc_pc' = "sleep"]_vars
    /\ [](hc_pc \in {"sleep", "scale"})

\* a pass in which the probe of the first instance raised has checked the
\* instances after it, among them one over the connection ceiling, and
\* auto_scale has run
C32_Witness ==
    /\ ret.op = "auto_scale"
    /\ hc_pc = "sleep"
    /\ LET pool == agent_pools[LoadedType]
       IN  /\ Len(pool) >= 2
           /\ pool[1].health_status = "unhealthy"
           /\ pool[1].active_connections = 0
           /\ pool[2].health_status = "overloaded"
    /\ agent_pools["Tax Agent"][1].health_status = "healthy"

(***************************************************************************)
(* Execution of a fired job, for every task_type                           *)
(***************************************************************************)
\* the four task types _execute_task names, and one it does not
AllTaskTypes == {"file_analysis", "audit_report", "tax_calculation",
                 "consultation", "custom"}

NextDispatch ==
    \/ \E task_type \in AllTaskTypes :
       \E has_file \in IF task_type = "file_analysis" THEN BOOLEAN ELSE {FALSE} :
          Sched(ScheduleTask(task_type, has_file, "now"))
    \/ \E task_id \in 1..MaxTasks : Sched(AddJob(task_id, FALSE))
    \/ \E task_id \in 1..MaxTasks : Sched(MarkScheduled(task_id))
    \/ Sched(Start)
    \/ \E task_id \in 1..MaxTasks : Sched(ProcessJobs(task_id))
    \/ \E task_id \in 1..MaxTasks : Sched(ExecuteStart(task_id))
    \/ \E task_id \in 1..MaxTasks, agent_raises \in BOOLEAN :
          Sched(ExecuteFinish(task_id, agent_raises))

SpecDispatch == Init /\ [][NextDispatch]_vars

\* C33: the execution of a job dispatches on its type: 'file_analysis' calls
\* the worker's analyze_file and every other type (audit_report,
\* tax_calculation, consultation or an unknown one) calls chat, exactly once;
\* a 'file_analysis' job without file_path or file_name ends 'failed' with no
\* call of the worker.
C33_DispatchOnType ==
    [][\A task_id \in 1..MaxTasks, agent_raises \in BOOLEAN :
          ExecuteFinish(task_id, agent_raises) =>
              LET old == tasks[task_id]
                  new == tasks'[task_id]
                  made == SubSeq(new.invoked, Len(old.invoked) + 1,
                                 Len(new.invoked))
              IN  /\ SubSeq(new.invoked, 1, Len(old.invoked)) = old.invoked
                  /\ (old.task_type = "file_analysis" /\ old.has_file)
                        => made = <<"analyze_file">>
                  /\ (old.task_type = "file_analysis" /\ ~old.has_file)
                        => made = <<>> /\ new.status = "failed"
                  /\ old.task_type # "file_analysis" => made = <<"chat">>]_vars

\* a job of a type _execute_task does not name has completed after one chat
C33_Witness ==
    \E task_id \in 1..Len(tasks) :
        /\ tasks[task_id].task_type = "custom"
        /\ tasks[task_id].status = "completed"
        /\ tasks[task_id].invoked = <<"chat">>

\* a file_analysis job without its file has failed, the worker never called
C33_WitnessNoFile ==
    \E task_id \in 1..Len(tasks) :
        /\ tasks[task_id].task_type = "file_analysis"
        /\ ~tasks[task_id].has_file
        /\ tasks[task_id].status = "failed"
        /\ tasks[task_id].invoked = <<>>

(***************************************************************************)
(* cancel_task and reschedule_task statement by statement: one caller of   *)
(* each, on the same task, next to the scheduler thread that fires the job *)
(***************************************************************************)
\* the task both callers name: the first one scheduled
RaceTask == 1

Canceller == 1
Rescheduler == 2

\* cancel_task, lines 271-273 and 279-284: the checks before remove_job
CancelCheck ==
    /\ pc[Canceller] = "idle"
    /\ IF Known(RaceTask) /\ tasks[RaceTask].status = "scheduled"
       THEN /\ pc' = [pc EXCEPT ![Canceller] = "cancel_remove"]
            /\ UNCHANGED sret
       ELSE /\ pc' = [pc EXCEPT ![Canceller] = "done"]
            /\ sret' = SRet("cancel_task", FALSE)
    /\ UNCHANGED <<tasks, jobs, schedule_pc, scheduler_running>>

\* cancel_task, line 274: remove_job, JobLookupError caught at 285
CancelRemove ==
    /\ pc[Canceller] = "cancel_remove"
    /\ IF InStore(RaceTask)
       THEN /\ jobs' = [jobs EXCEPT ![RaceTask] = "none"]
            /\ pc' = [pc EXCEPT ![Canceller] = "cancel_mark"]
            /\ UNCHANGED sret
       ELSE /\ pc' = [pc EXCEPT ![Canceller] = "done"]
            /\ sret' = SRet("cancel_task", FALSE)
            /\ UNCHANGED jobs
    /\ UNCHANGED <<tasks, schedule_pc, scheduler_running>>

\* cancel_task, lines 275-278
CancelMark ==
    /\ pc[Canceller] = "cancel_mark"
    /\ tasks' = [tasks EXCEPT ![RaceTask].status = "cancelled",
                              ![RaceTask].cancelled_at = TRUE]
    /\ pc' = [pc EXCEPT ![Canceller] = "done"]
    /\ sret' = SRet("cancel_task", TRUE)
    /\ UNCHANGED <<jobs, schedule_pc, scheduler_running>>

\* reschedule_task, lines 292-306: the checks and the parse of a valid time
RescheduleCheck ==
    /\ pc[Rescheduler] = "idle"
    /\ IF Known(RaceTask) /\ tasks[RaceTask].status = "scheduled"
       THEN /\ pc' = [pc EXCEPT ![Rescheduler] = "reschedule_remove"]
            /\ UNCHANGED sret
       ELSE /\ pc' = [pc EXCEPT ![Rescheduler] = "done"]
            /\ sret' = SRet("reschedule_task", FALSE)
    /\ UNCHANGED <<tasks, jobs, schedule_pc, scheduler_running>>

\* reschedule_task, line 309: remove_job, JobLookupError caught at 326
RescheduleRemove ==
    /\ pc[Rescheduler] = "reschedule_remove"
    /\ IF InStore(RaceTask)
       THEN /\ jobs' = [jobs EXCEPT ![RaceTask] = "none"]
            /\ pc' = [pc EXCEPT ![Rescheduler] = "reschedule_add"]
            /\ UNCHANGED sret
       ELSE /\ pc' = [pc EXCEPT ![Rescheduler] = "done"]
            /\ sret' = SRet("reschedule_task", FALSE)
            /\ UNCHANGED jobs
    /\ UNCHANGED <<tasks, schedule_pc, scheduler_running>>

\* reschedule_task, lines 310-317: add_job for the new time, or it raises
RescheduleAdd(raises) ==
    /\ pc[Rescheduler] = "reschedule_add"
    /\ IF raises
       THEN /\ pc' = [pc EXCEPT ![Rescheduler] = "done"]
            /\ sret' = SRet("reschedule_task", FALSE)
            /\ UNCHANGED jobs
       ELSE /\ jobs' = [jobs EXCEPT ![RaceTask] = RunDate("later")]
            /\ pc' = [pc EXCEPT ![Rescheduler] = "reschedule_update"]
            /\ UNCHANGED sret
    /\ UNCHANGED <<tasks, schedule_pc, scheduler_running>>

\* reschedule_task, lines 320-324
RescheduleUpdate ==
    /\ pc[Rescheduler] = "reschedule_update"
    /\ tasks' = [tasks EXCEPT ![RaceTask].scheduled_for = "later",
                              ![RaceTask].rescheduled_at = TRUE]
    /\ pc' = [pc EXCEPT ![Rescheduler] = "done"]
    /\ sret' = SRet("reschedule_task", TRUE)
    /\ UNCHANGED <<jobs, schedule_pc, scheduler_running>>

\* a statement of one of the two callers
Caller(A) ==
    /\ A
    /\ UNCHANGED <<lbVars, calls, picked, lock, frame, cronVars>>

NextRace ==
    \/ Sched(ScheduleTask("consultation", FALSE, "now"))
    \/ \E task_id \in 1..MaxTasks : Sched(AddJob(task_id, FALSE))
    \/ \E task_id \in 1..MaxTasks : Sched(MarkScheduled(task_id))
    \/ Sched(Start)
    \/ \E task_id \in 1..MaxTasks : Sched(Elapse(task_id))
    \/ \E task_id \in 1..MaxTasks : Sched(ProcessJobs(task_id))
    \/ \E task_id \in 1..MaxTasks : Sched(ExecuteStart(task_id))
    \/ \E task_id \in 1..MaxTasks, agent_raises \in BOOLEAN :
          Sched(ExecuteFinish(task_id, agent_raises))
    \/ Caller(CancelCheck)
    \/ Caller(CancelRemove)
    \/ Caller(CancelMark)
    \/ Caller(RescheduleCheck)
    \/ Caller(RescheduleRemove)
    \/ \E raises \in BOOLEAN : Caller(RescheduleAdd(raises))
    \/ Caller(RescheduleUpdate)

SpecRace == Init /\ [][NextRace]_vars

\* C34: a timer fire, a cancel and a reschedule of the same job are
\* serialized: a job that is 'cancelled' gets no scheduled_for or
\* rescheduled_at update after its cancellation, and reschedule_task does not
\* return True for a job that is left with no pending timer without having
\* fired.
C34_Serialized ==
    /\ [][\A task_id \in 1..Len(tasks) :
            tasks[task_id].status = "cancelled" =>
                /\ tasks'[task_id].scheduled_for = tasks[task_id].scheduled_for
                /\ tasks'[task_id].rescheduled_at = tasks[task_id].rescheduled_at]_vars
    /\ [][(sret' # sret /\ sret' = SRet("reschedule_task", TRUE)) =>
              \/ InStore(RaceTask)'
              \/ tasks'[RaceTask].started_at]_vars

(***************************************************************************)
(* get_agent and release_agent in pairs: every release_agent follows a     *)
(* get_agent of its own, the pool keeps its members                        *)
(***************************************************************************)
MaxPairedCalls == 7

PairedType == "Dabby Consultant"

RECURSIVE SumRequests(_)
SumRequests(instances) ==
    IF instances = <<>> THEN 0
    ELSE Head(instances).total_requests + SumRequests(Tail(instances))

\* the get_agent calls not yet released: every call so far was a get_agent
\* (one request each) or a release_agent
Outstanding == 2 * SumRequests(agent_pools[PairedType]) - calls

PairedCall(A) == Within(MaxPairedCalls, A)
NextPaired ==
    \/ PairedCall(GetAgent(PairedType))
    \/ \E r \in ResponseTimes :
          Outstanding > 0 /\ PairedCall(ReleaseAgent(PairedType, r))

SpecPaired == Init /\ [][NextPaired]_vars

\* C35: when every release_agent follows a get_agent of its own and the pool
\* keeps its members, the sum of active_connections over the pool equals the
\* number of get_agent calls not yet released, and once all are released every
\* instance has active_connections 0.
C35_ConnectionsBalance ==
    /\ SumConnections(agent_pools[PairedType]) = Outstanding
    /\ Outstanding = 0 =>
          \A i \in 1..Len(agent_pools[PairedType]) :
              agent_pools[PairedType][i].active_connections = 0

\* C36: the instance ids within one pool are pairwise distinct, so that an id
\* names one instance.
C36_DistinctIds ==
    \A t \in AgentTypes : \A i, j \in 1..Len(agent_pools[t]) :
        i # j => agent_pools[t][i].agent_id # agent_pools[t][j].agent_id

\* C37: a job has status 'scheduled' if and only if a pending one-shot timer
\* exists for its id (read between calls: schedule_task has returned and no
\* fired job waits for its executor thread); a failed reschedule or a missed
\* fire time does not leave a job 'scheduled' with no timer.
C37_ScheduledIffTimer ==
    \A task_id \in 1..Len(tasks) :
        (schedule_pc[task_id] = "done" /\ jobs[task_id] # "submitted") =>
            (tasks[task_id].status = "scheduled" <=> InStore(task_id))

\* C38: a job is executed at most once: once started, its handler is never
\* started again under any interleaving of schedule, reschedule, cancel and
\* timer fires, so started_at is written once and a job never goes from
\* 'completed' or 'failed' back to 'running'.
C38_ExecutedAtMostOnce ==
    /\ [][\A task_id \in 1..MaxTasks :
            ExecuteStart(task_id) => ~tasks[task_id].started_at]_vars
    /\ [][\A task_id \in 1..Len(tasks) :
            tasks[task_id].status \in {"completed", "failed"} =>
                tasks'[task_id].status # "running"]_vars
    /\ [][\A task_id \in 1..Len(tasks) :
            tasks[task_id].started_at =>
                /\ tasks'[task_id].started_at
                /\ Len(tasks'[task_id].invoked) <= 1]_vars

\* a job that was rescheduled has run to its end, once, and a later
\* reschedule_task was refused
C38_Witness ==
    \E task_id \in 1..Len(tasks) :
        /\ tasks[task_id].rescheduled_at
        /\ tasks[task_id].started_at
        /\ tasks[task_id].status = "completed"
        /\ Len(tasks[task_id].invoked) = 1
        /\ sret = SRet("reschedule_task", FALSE)

(***************************************************************************)
(* C39: the instances that scale_up appends carry the configured weight of  *)
(* their worker type, as the instances created by get_agent do.             *)
(***************************************************************************)
C39_ScaledUpWeight ==
    [][Called("scale_up") =>
          \A i \in (Len(agent_pools[ret'.t]) + 1)..Len(agent_pools'[ret'.t]) :
              agent_pools'[ret'.t][i].weight = agent_weights[ret'.t]]_vars

(***************************************************************************)
(* The lock of the LoadBalancer, acquisition by acquisition                 *)
(*                                                                          *)
(* Every "with self.lock" of a call is a step of its own. A call changes    *)
(* the pools when it first gets the lock; the acquisitions nested in it     *)
(* (_create_agent_instance inside get_agent and auto_scale, scale_down      *)
(* inside auto_scale, remove_agent_instance inside scale_down) and the      *)
(* releases follow one by one. frame[th] holds the call a thread is in, the *)
(* acquisitions and releases it still has to make, and how many times it    *)
(* holds the lock.                                                          *)
(***************************************************************************)
MaxLockCalls == 2

\* the thread that _start_health_checker starts, next to the callers 1 and 2
HealthThread == 3
LockThreads == Threads \cup {HealthThread}

LockType == "Dabby Consultant"
ForegroundOps == {"get_agent", "release_agent", "scale_up", "scale_down"}

NoLockFrame == [op |-> "", todo |-> <<>>, depth |-> 0]

\* a plain Lock: the thread that holds it waits for itself
Acquirable_NotReentrant(th) == lock = 0

\* threading.RLock: free, or held by the thread that asks
Acquirable(th) == lock = 0 \/ lock = th

\* _create_agent_instance: "with self.lock" around the append
CreateScript == <<"acquire", "release">>

\* remove_agent_instance: "with self.lock" around its body
RemoveScript == <<"acquire", "release">>

RECURSIVE Repeat(_, _)
Repeat(script, n) == IF n <= 0 THEN <<>> ELSE script \o Repeat(script, n - 1)

\* get_agent, inside its lock: the guarded creations
GetAgentScript(pool) == IF CreationNeeded(pool) THEN CreateScript ELSE <<>>

\* scale_down, inside its lock: one remove_agent_instance per instance to go
ScaleDownScript(pool, n) ==
    IF ScaleDownRefused(pool, n) THEN <<>> ELSE Repeat(RemoveScript, n)

\* auto_scale, inside its lock, for one type: scale_up (add_agent_instance,
\* _create_agent_instance) or scale_down (its own lock, then the removals)
AutoScaleBranch(pool) ==
    IF pool = <<>> THEN <<>>
    ELSE IF ScaleUpWanted(pool)
    THEN IF BelowCeiling(pool) THEN CreateScript ELSE <<>>
    ELSE IF ScaleDownWanted(pool) /\ Len(pool) > 1
    THEN <<"acquire">> \o ScaleDownScript(pool, 1) \o <<"release">>
    ELSE <<>>

RECURSIVE AutoScaleScript(_, _)
AutoScaleScript(pools, types) ==
    IF types = <<>> THEN <<>>
    ELSE AutoScaleBranch(pools[Head(types)])
             \o AutoScaleScript(pools, Tail(types))

\* what a call has left to do once it holds the lock for the first time
LockScript(op, pools) ==
    (CASE op = "get_agent" -> GetAgentScript(pools[LockType])
       [] op = "release_agent" -> <<>>
       [] op = "scale_up" -> <<>>
       [] op = "scale_down" -> ScaleDownScript(pools[LockType], 1)
       [] op = "health_check" -> <<>>
       [] op = "auto_scale" -> AutoScaleScript(pools, TypeOrder))
    \o <<"release">>

\* what the call does to the pools
LockEffect(op) ==
    CASE op = "get_agent" -> GetAgent(LockType)
      [] op = "release_agent" -> ReleaseAgent(LockType, 0)
      [] op = "scale_up" -> ScaleUp(LockType, 1)
      [] op = "scale_down" -> ScaleDown(LockType, 1)
      [] op = "health_check" ->
            \E probe \in UniformProbes(agent_pools) : HealthCheckPass(probe)
      [] op = "auto_scale" -> AutoScale

\* a caller begins a call; the health checker wakes up from its sleep
LockBegin(th, op) ==
    /\ pc[th] = "idle"
    /\ th = HealthThread => hc_pc = "sleep"
    /\ calls < MaxLockCalls
    /\ calls' = calls + 1
    /\ pc' = [pc EXCEPT ![th] = "enter"]
    /\ frame' = [frame EXCEPT ![th] = [NoLockFrame EXCEPT !.op = op]]
    /\ UNCHANGED <<lbVars, lock>>

\* the first acquisition of a call, and its effect
LockEnter(th) ==
    /\ pc[th] = "enter"
    /\ Acquirable(th)
    /\ lock' = th
    /\ LockEffect(frame[th].op)
    /\ pc' = [pc EXCEPT ![th] = "run"]
    /\ frame' = [frame EXCEPT ![th].todo = LockScript(frame[th].op, agent_pools),
                              ![th].depth = 1]
    /\ UNCHANGED calls

\* a nested "with self.lock"
LockAcquire(th) ==
    /\ pc[th] = "run"
    /\ Head(frame[th].todo) = "acquire"
    /\ Acquirable(th)
    /\ lock' = th
    /\ frame' = [frame EXCEPT ![th].todo = Tail(@), ![th].depth = @ + 1]
    /\ UNCHANGED <<lbVars, calls, pc>>

\* the end of a "with self.lock"; after the last one the call returns, and
\* the health checker goes from its pass to auto_scale
LockRelease(th) ==
    /\ pc[th] = "run"
    /\ Head(frame[th].todo) = "release"
    /\ lock' = IF frame[th].depth = 1 THEN 0 ELSE lock
    /\ IF Tail(frame[th].todo) # <<>>
       THEN /\ frame' = [frame EXCEPT ![th].todo = Tail(@),
                                      ![th].depth = @ - 1]
            /\ UNCHANGED pc
       ELSE IF frame[th].op = "health_check"
       THEN /\ frame' = [frame EXCEPT
                           ![th] = [NoLockFrame EXCEPT !.op = "auto_scale"]]
            /\ pc' = [pc EXCEPT ![th] = "enter"]
       ELSE /\ frame' = [frame EXCEPT ![th] = NoLockFrame]
            /\ pc' = [pc EXCEPT ![th] = "idle"]
    /\ UNCHANGED <<lbVars, calls>>

\* active_connections of the two initial instances of the callers' type when
\* the threads begin: none, or above 70% of the ceiling
LockLoads == {0, 8}

InitLock ==
    \E conns \in [1..Len(InitialPool(LockType)) -> LockLoads] :
        /\ algorithm = ROUND_ROBIN
        /\ agent_pools = [t \in AgentTypes |->
              IF t = LockType THEN LoadedPool(t, conns) ELSE InitialPool(t)]
        /\ round_robin_counters = [t \in AgentTypes |-> 0]
        /\ agent_weights = DefaultWeights
        /\ created = [t \in AgentTypes |-> Len(InitialPool(t))]
        /\ now = SumSeq(conns)
        /\ hc_pc = "sleep"
        /\ ret = NoRet
        /\ calls = 0
        /\ picked = <<>>
        /\ TaskSchedulerInit
        /\ lock = 0
        /\ pc = [th \in LockThreads |-> "idle"]
        /\ frame = [th \in LockThreads |-> NoLockFrame]

\* a step of a thread; the scheduler is left alone
Locking(A) == A /\ UNCHANGED <<picked, schedVars>>

LockStep(th) ==
    \/ Locking(LockEnter(th))
    \/ Locking(LockAcquire(th))
    \/ Locking(LockRelease(th))

NextLock ==
    \/ \E th \in Threads, op \in ForegroundOps : Locking(LockBegin(th, op))
    \/ Locking(LockBegin(HealthThread, "health_check"))
    \/ \E th \in LockThreads : Locking(LockEnter(th))
    \/ \E th \in LockThreads : Locking(LockAcquire(th))
    \/ \E th \in LockThreads : Locking(LockRelease(th))

\* a thread that can take its next step is scheduled in the end
SpecLock ==
    /\ InitLock
    /\ [][NextLock]_vars
    /\ \A th \in LockThreads : WF_vars(LockStep(th))

(***************************************************************************)
(* C40: the dispatcher never deadlocks. Every call of a caller and every    *)
(* round of the health checker (its pass, then auto_scale with scale_up or  *)
(* scale_down and remove_agent_instance nested in it) that has begun        *)
(* returns, whatever the other threads do; the lock is held only by a       *)
(* thread inside a call, as many times as that thread has entered it, and   *)
(* is free when no call is in progress.                                     *)
(***************************************************************************)
C40_NeverDeadlocks ==
    /\ \A th \in LockThreads : (pc[th] # "idle") ~> (pc[th] = "idle")
    /\ []((\A th \in LockThreads : pc[th] = "idle") => lock = 0)
    /\ [](\A th \in LockThreads :
             (lock = th) <=> (pc[th] = "run" /\ frame[th].depth > 0))

\* the health checker holds the lock three times over (auto_scale,
\* scale_down, remove_agent_instance) while a caller waits for it
C40_Witness ==
    /\ lock = HealthThread
    /\ frame[HealthThread].op = "auto_scale"
    /\ frame[HealthThread].depth = 3
    /\ \E th \in Threads : pc[th] = "enter"

====
